---- MODULE Spec2Model ----
(***************************************************************************)
(* Model of the tts-highlight synchronization engine:                      *)
(*   TextPreparer (markdown stripper, position map, chunker),              *)
(*   SpeechEngine (wrapper around the browser speech backend),             *)
(*   ReadingHighlighter (sequential DOM word search),                      *)
(*   the CM6 highlight field, and PlaybackController (the state machine).  *)
(*                                                                         *)
(* Text is a sequence of one-character strings; offsets are 0-based as in  *)
(* the TypeScript source, so character i of s is s[i + 1].                 *)
(***************************************************************************)
EXTENDS Integers, Sequences, FiniteSets, TLC

\* The grave accent U+0060, written as an atom: it stands for the one
\* character and equals no other character of the model.
Backtick == "GRAVE"

\* ------------------------------------------------------------------------
\* JavaScript string primitives used by the source
\* ------------------------------------------------------------------------

\* Characters matched by \s and removed by String.prototype.trim.
WS == {" ", "\n", "\r", "\t"}

Digits == {"0", "1", "2", "3", "4", "5", "6", "7", "8", "9"}

Letters ==
    {"a", "b", "c", "d", "e", "f", "g", "h", "i", "j", "k", "l", "m",
     "n", "o", "p", "q", "r", "s", "t", "u", "v", "w", "x", "y", "z",
     "A", "B", "C", "D", "E", "F", "G", "H", "I", "J", "K", "L", "M",
     "N", "O", "P", "Q", "R", "S", "T", "U", "V", "W", "X", "Y", "Z"}

Min(a, b) == IF a <= b THEN a ELSE b

Max(a, b) == IF a >= b THEN a ELSE b

\* s[i]; out of range is JavaScript's undefined, written "" here (it equals
\* no character).
At(s, i) == IF i >= 0 /\ i < Len(s) THEN s[i + 1] ELSE ""

\* s.substring(from, to) for 0 <= from
Substring(s, from, to) ==
    LET a == Min(Max(from, 0), Len(s))
        b == Min(Max(to, 0), Len(s))
        lo == Min(a, b)
        hi == Max(a, b)
    IN  SubSeq(s, lo + 1, hi)

\* s.startsWith(pat, at)
MatchAt(s, pat, at) ==
    /\ at >= 0
    /\ at + Len(pat) <= Len(s)
    /\ \A k \in 1..Len(pat) : s[at + k] = pat[k]

\* s.indexOf(pat, from); -1 when absent
IndexOf(s, pat, from) ==
    LET start == Min(Max(from, 0), Len(s))
        hits == {k \in start..(Len(s) - Len(pat)) : MatchAt(s, pat, k)}
    IN  IF hits = {} THEN -1 ELSE CHOOSE k \in hits : \A j \in hits : k <= j

\* s.lastIndexOf(pat); -1 when absent
LastIndexOf(s, pat) ==
    LET hits == {k \in 0..(Len(s) - Len(pat)) : MatchAt(s, pat, k)}
    IN  IF hits = {} THEN -1 ELSE CHOOSE k \in hits : \A j \in hits : k >= j

\* s.trimStart()
TrimStart(s) ==
    LET keep == {k \in 1..Len(s) : s[k] \notin WS}
    IN  IF keep = {} THEN <<>>
        ELSE SubSeq(s, CHOOSE k \in keep : \A j \in keep : k <= j, Len(s))

\* s.trim()
Trim(s) ==
    LET keep == {k \in 1..Len(s) : s[k] \notin WS}
    IN  IF keep = {} THEN <<>>
        ELSE SubSeq(s, CHOOSE k \in keep : \A j \in keep : k <= j,
                       CHOOSE k \in keep : \A j \in keep : k >= j)

\* s.replace(/\r$/, "")
StripTrailingCR(s) ==
    IF Len(s) > 0 /\ s[Len(s)] = "\r" THEN SubSeq(s, 1, Len(s) - 1) ELSE s

\* /^\|[\s:|-]+\|$/.test(line)
IsTableSeparatorShape(line) ==
    /\ Len(line) >= 3
    /\ line[1] = "|"
    /\ line[Len(line)] = "|"
    /\ \A k \in 2..(Len(line) - 1) : line[k] \in WS \cup {":", "|", "-"}

\* /^[-*_]{3,}$/.test(line)
IsRuleShape(line) ==
    /\ Len(line) >= 3
    /\ \A k \in 1..Len(line) : line[k] \in {"-", "*", "_"}

\* /^\/?[a-zA-Z][a-zA-Z0-9]*(\s[^>]*)?\/?$/.test(tagContent); tagContent
\* holds no ">".
IsTagShape(tagContent) ==
    LET r == IF At(tagContent, 0) = "/"
             THEN SubSeq(tagContent, 2, Len(tagContent)) ELSE tagContent
        stops == {k \in 2..Len(r) : r[k] \notin Letters \cup Digits}
        k0 == CHOOSE k \in stops : \A j \in stops : k <= j
    IN  /\ Len(r) >= 1
        /\ r[1] \in Letters
        /\ \/ stops = {}
           \/ r[k0] \in WS
           \/ r[k0] = "/" /\ k0 = Len(r)

\* ------------------------------------------------------------------------
\* TextPreparer
\* ------------------------------------------------------------------------

\* pushChar appending an anchor for every character.
pushCharAlways(out, map, ch, plainIndex, editorIndex) ==
    [out |-> Append(out, ch),
     map |-> Append(map, [plain |-> plainIndex, editor |-> editorIndex])]

\* pushChar: append ch to the output; append an anchor only when the
\* (editor - plain) delta differs from the last anchor's.
pushChar(out, map, ch, plainIndex, editorIndex) ==
    [out |-> Append(out, ch),
     map |-> IF \/ Len(map) = 0
                \/ editorIndex - map[Len(map)].editor
                     # plainIndex - map[Len(map)].plain
             THEN Append(map, [plain |-> plainIndex, editor |-> editorIndex])
             ELSE map]

\* Emit without the plainIndex++ that follows pushChar.
EmitNoAdvance(st, ch, editorIndex) ==
    LET r == pushChar(st.out, st.map, ch, st.plainIndex, editorIndex)
    IN  [st EXCEPT !.out = r.out, !.map = r.map,
                   !.origin = Append(@, editorIndex)]

\* One emitted character of stripMarkdown: pushChar then plainIndex++.
\* origin keeps, for every emitted character, the editorIndex argument it
\* was pushed with (the source character the scan was on).
Emit(st, ch, editorIndex) ==
    LET r == pushChar(st.out, st.map, ch, st.plainIndex, editorIndex)
    IN  [st EXCEPT !.out = r.out, !.map = r.map, !.plainIndex = @ + 1,
                   !.origin = Append(@, editorIndex)]

\* The copy loops of stripMarkdown: emit text[from .. to-1], character k
\* registered at editor index base + k.
RECURSIVE EmitRange(_, _, _, _, _)
EmitRange(st, text, from, to, base) ==
    IF from >= to THEN st
    ELSE EmitRange(Emit(st, At(text, from), base + from), text, from + 1, to, base)

\* findClosingBracket: index of the "]" that closes the "[" at openPos
\* (depth-aware), -1 when there is none.
RECURSIVE findClosingBracketFrom(_, _, _)
findClosingBracketFrom(text, i, depth) ==
    IF i >= Len(text) THEN -1
    ELSE IF At(text, i) = "[" THEN findClosingBracketFrom(text, i + 1, depth + 1)
    ELSE IF At(text, i) = "]"
         THEN IF depth - 1 = 0 THEN i
              ELSE findClosingBracketFrom(text, i + 1, depth - 1)
    ELSE findClosingBracketFrom(text, i + 1, depth)

findClosingBracket(text, openPos) == findClosingBracketFrom(text, openPos, 0)

\* First index >= i whose character is not in cls (Len(raw) when none):
\* the "while (k < len && raw[k] in cls) k++" scans.
RECURSIVE SkipWhile(_, _, _)
SkipWhile(raw, i, cls) ==
    IF i < Len(raw) /\ At(raw, i) \in cls THEN SkipWhile(raw, i + 1, cls) ELSE i

\* End of the line holding index i: [lineEnd, index after the line].
LineBounds(raw, i) ==
    LET nlIdx == IndexOf(raw, <<"\n">>, i)
    IN  [nl |-> nlIdx,
         end |-> IF nlIdx = -1 THEN Len(raw) ELSE nlIdx,
         next |-> IF nlIdx = -1 THEN Len(raw) ELSE nlIdx + 1]

\* The inner loop of the fenced-code rule: skip lines up to and including
\* the closing fence; returns the new scan index.
RECURSIVE SkipFence(_, _, _)
SkipFence(raw, i, fence) ==
    IF i >= Len(raw) THEN i
    ELSE LET lb == LineBounds(raw, i)
             fenceLine == TrimStart(Substring(raw, i, lb.end))
         IN  IF MatchAt(fenceLine, <<fence, fence, fence>>, 0)
             THEN lb.next
             ELSE SkipFence(raw, lb.next, fence)

\* The frontmatter branch of the scan loop.
FrontmatterStep(raw, st) ==
    LET nlIdx == IndexOf(raw, <<"\n">>, st.i)
        line == StripTrailingCR(Substring(raw, st.i, nlIdx))
    IN  IF nlIdx = -1 THEN [st EXCEPT !.i = Len(raw)]
        ELSE IF line = <<"-", "-", "-">>
             THEN [st EXCEPT !.i = nlIdx + 1, !.inFrontmatter = FALSE,
                             !.lineStart = TRUE]
             ELSE [st EXCEPT !.i = nlIdx + 1]

\* The start-of-line rules, tried in the source order. hit = FALSE
\* means no rule consumed anything and the inline rules run on ch.
LineStartStep(raw, st) ==
    LET i == st.i
        len == Len(raw)
        ch == At(raw, i)
        lb == LineBounds(raw, i)
        trimmed == Trim(Substring(raw, i, lb.end))
        hashEnd == SkipWhile(raw, i, {"#"})
        numEnd == SkipWhile(raw, i, Digits)
        s0 == [st EXCEPT !.lineStart = FALSE]
    IN  IF /\ ch = "|"
           /\ IsTableSeparatorShape(trimmed)
           /\ \E k \in 1..Len(trimmed) : trimmed[k] = "-"
        THEN [hit |-> TRUE, st |-> [s0 EXCEPT !.i = lb.next, !.lineStart = TRUE]]
        ELSE IF /\ ch \in {Backtick, "~"}
                /\ At(raw, i + 1) = ch
                /\ At(raw, i + 2) = ch
        THEN [hit |-> TRUE,
              st |-> IF lb.nl = -1 THEN [s0 EXCEPT !.i = len]
                     ELSE [s0 EXCEPT !.i = SkipFence(raw, lb.nl + 1, ch),
                                     !.lineStart = TRUE]]
        ELSE IF ch = "#" /\ hashEnd < len /\ At(raw, hashEnd) = " "
        THEN [hit |-> TRUE, st |-> [s0 EXCEPT !.i = hashEnd + 1]]
        ELSE IF ch = ">"
        THEN [hit |-> TRUE,
              st |-> [s0 EXCEPT !.i = IF At(raw, i + 1) = " " THEN i + 2 ELSE i + 1]]
        ELSE IF ch \in {"-", "*", "+"} /\ i + 1 < len /\ At(raw, i + 1) = " "
        THEN [hit |-> TRUE, st |-> [s0 EXCEPT !.i = i + 2]]
        ELSE IF /\ ch \in Digits
                /\ At(raw, numEnd) = "."
                /\ At(raw, numEnd + 1) = " "
        THEN [hit |-> TRUE, st |-> [s0 EXCEPT !.i = numEnd + 2]]
        ELSE IF /\ ch \in {"-", "*", "_"}
                /\ i + 2 < len
                /\ At(raw, i + 1) = ch
                /\ At(raw, i + 2) = ch
                /\ IsRuleShape(trimmed)
        THEN [hit |-> TRUE, st |-> [s0 EXCEPT !.i = lb.next, !.lineStart = TRUE]]
        ELSE [hit |-> FALSE, st |-> s0]

\* The table-pipe rule emitting its space whatever was emitted before.
tablePipeAlways(raw, st, editorOffset) ==
    [Emit(st, " ", st.i + editorOffset) EXCEPT !.i = SkipWhile(raw, st.i + 1, {" "})]

\* The table-pipe rule on the "|" at st.i: a space unless the last emitted
\* character is a space or nothing was emitted; the spaces after the pipe
\* are skipped.
tablePipe(raw, st, editorOffset) ==
    LET lastChar == IF Len(st.out) > 0 THEN st.out[Len(st.out)] ELSE ""
    IN  [(IF lastChar # " " /\ lastChar # ""
          THEN Emit(st, " ", st.i + editorOffset) ELSE st)
           EXCEPT !.i = SkipWhile(raw, st.i + 1, {" "})]

\* The inline rules, tried in the source order on the character at st.i.
InlineStep(raw, st, editorOffset) ==
    LET i == st.i
        len == Len(raw)
        ch == At(raw, i)
        tickEnd == IndexOf(raw, <<Backtick>>, i + 1)
        imgClose == IndexOf(raw, <<"]">>, i + 2)
        imgParen == IndexOf(raw, <<")">>, imgClose + 2)
        closeBracket == findClosingBracket(raw, i)
        closeParen == IndexOf(raw, <<")">>, closeBracket + 2)
        closeWiki == IndexOf(raw, <<"]", "]">>, i + 2)
        inner == Substring(raw, i + 2, closeWiki)
        pipeIdx == IndexOf(inner, <<"|">>, 0)
        displayStart == IF pipeIdx # -1 THEN i + 2 + pipeIdx + 1 ELSE i + 2
        markerEnd == SkipWhile(raw, i, {ch})
        closeAngle == IndexOf(raw, <<">">>, i + 1)
    IN  IF ch = "\n"
        THEN [Emit(st, " ", i + editorOffset) EXCEPT !.i = i + 1, !.lineStart = TRUE]
        ELSE IF ch = "\r"
        THEN [st EXCEPT !.i = i + 1]
        ELSE IF ch = Backtick /\ tickEnd # -1
        THEN [EmitRange(st, raw, i + 1, tickEnd, editorOffset) EXCEPT !.i = tickEnd + 1]
        ELSE IF /\ ch = "!" /\ i + 1 < len /\ At(raw, i + 1) = "["
                /\ imgClose # -1 /\ At(raw, imgClose + 1) = "("
                /\ imgParen # -1
        THEN [EmitRange(st, raw, i + 2, imgClose, editorOffset) EXCEPT !.i = imgParen + 1]
        ELSE IF /\ ch = "["
                /\ closeBracket # -1 /\ closeBracket + 1 < len
                /\ At(raw, closeBracket + 1) = "("
                /\ closeParen # -1
        THEN [EmitRange(st, raw, i + 1, closeBracket, editorOffset)
                EXCEPT !.i = closeParen + 1]
        ELSE IF ch = "[" /\ i + 1 < len /\ At(raw, i + 1) = "[" /\ closeWiki # -1
        THEN [EmitRange(st, raw, displayStart, closeWiki, editorOffset)
                EXCEPT !.i = closeWiki + 2]
        ELSE IF ch \in {"*", "_"} /\ markerEnd - i <= 3
        THEN [st EXCEPT !.i = markerEnd]
        ELSE IF ch = "~" /\ i + 1 < len /\ At(raw, i + 1) = "~"
        THEN [st EXCEPT !.i = i + 2]
        ELSE IF ch = "=" /\ i + 1 < len /\ At(raw, i + 1) = "="
        THEN [st EXCEPT !.i = i + 2]
        ELSE IF ch = "|"
        THEN tablePipe(raw, st, editorOffset)
        ELSE IF /\ ch = "<" /\ closeAngle # -1
                /\ IsTagShape(Substring(raw, i + 1, closeAngle))
        THEN [st EXCEPT !.i = closeAngle + 1]
        ELSE [Emit(st, ch, i + editorOffset) EXCEPT !.i = i + 1]

\* One iteration of stripMarkdown's scan loop.
ScanStep(raw, st, editorOffset) ==
    IF st.inFrontmatter THEN FrontmatterStep(raw, st)
    ELSE IF st.lineStart /\ LineStartStep(raw, st).hit
         THEN LineStartStep(raw, st).st
         ELSE InlineStep(raw, [st EXCEPT !.lineStart = FALSE], editorOffset)

RECURSIVE Scan(_, _, _)
Scan(raw, st, editorOffset) ==
    IF st.i >= Len(raw) THEN st ELSE Scan(raw, ScanStep(raw, st, editorOffset), editorOffset)

\* The scan of stripMarkdown: the state of the loop when it ends (out is
\* the emitted text before the trim).
scanMarkdown(raw, editorOffset) ==
    LET fm == \/ MatchAt(raw, <<"-", "-", "-", "\n">>, 0)
              \/ MatchAt(raw, <<"-", "-", "-", "\r", "\n">>, 0)
        st0 == [i |-> IF fm THEN IndexOf(raw, <<"\n">>, 0) + 1 ELSE 0,
                out |-> <<>>, map |-> <<>>, plainIndex |-> 0,
                lineStart |-> TRUE, inFrontmatter |-> fm, origin |-> <<>>]
    IN  Scan(raw, st0, editorOffset)

\* stripMarkdown: the plain text (trimmed) and the position map (untouched
\* by the trim).
stripMarkdown(raw, editorOffset) ==
    LET fin == scanMarkdown(raw, editorOffset)
    IN  [plainText |-> Trim(fin.out), map |-> fin.map]

\* The loop of splitChunks pushing every chunk trimmed.
RECURSIVE splitLoopTrimmed(_, _, _)
splitLoopTrimmed(text, maxSize, offset) ==
    IF offset >= Len(text) THEN <<>>
    ELSE IF offset + maxSize >= Len(text)
    THEN <<[chunk |-> Trim(Substring(text, offset, Len(text))), offset |-> offset]>>
    ELSE LET searchEnd == Min(offset + maxSize, Len(text))
             searchRegion == Substring(text, offset, searchEnd)
             lastSentence == LastIndexOf(searchRegion, <<".", " ">>)
             lastSpace == LastIndexOf(searchRegion, <<" ">>)
             splitAt == IF 2 * lastSentence > maxSize THEN offset + lastSentence + 2
                        ELSE IF 10 * lastSpace > 3 * maxSize THEN offset + lastSpace + 1
                        ELSE offset + maxSize
         IN  <<[chunk |-> Trim(Substring(text, offset, splitAt)), offset |-> offset]>>
               \o splitLoopTrimmed(text, maxSize, splitAt)

\* The loop of splitChunks with the hard split one character past the
\* window.
RECURSIVE splitLoopWide(_, _, _)
splitLoopWide(text, maxSize, offset) ==
    IF offset >= Len(text) THEN <<>>
    ELSE IF offset + maxSize >= Len(text)
    THEN <<[chunk |-> Substring(text, offset, Len(text)), offset |-> offset]>>
    ELSE LET searchEnd == Min(offset + maxSize, Len(text))
             searchRegion == Substring(text, offset, searchEnd)
             lastSentence == LastIndexOf(searchRegion, <<".", " ">>)
             lastSpace == LastIndexOf(searchRegion, <<" ">>)
             splitAt == IF 2 * lastSentence > maxSize THEN offset + lastSentence + 2
                        ELSE IF 10 * lastSpace > 3 * maxSize THEN offset + lastSpace + 1
                        ELSE offset + maxSize + 1
         IN  <<[chunk |-> Substring(text, offset, splitAt), offset |-> offset]>>
               \o splitLoopWide(text, maxSize, splitAt)

\* The loop of splitChunks with the hard split only.
RECURSIVE splitLoopHard(_, _, _)
splitLoopHard(text, maxSize, offset) ==
    IF offset >= Len(text) THEN <<>>
    ELSE IF offset + maxSize >= Len(text)
    THEN <<[chunk |-> Substring(text, offset, Len(text)), offset |-> offset]>>
    ELSE <<[chunk |-> Substring(text, offset, offset + maxSize), offset |-> offset]>>
           \o splitLoopHard(text, maxSize, offset + maxSize)

\* The loop of splitChunks trying the last space before the sentence end.
RECURSIVE splitLoopSpaceFirst(_, _, _)
splitLoopSpaceFirst(text, maxSize, offset) ==
    IF offset >= Len(text) THEN <<>>
    ELSE IF offset + maxSize >= Len(text)
    THEN <<[chunk |-> Substring(text, offset, Len(text)), offset |-> offset]>>
    ELSE LET searchEnd == Min(offset + maxSize, Len(text))
             searchRegion == Substring(text, offset, searchEnd)
             lastSentence == LastIndexOf(searchRegion, <<".", " ">>)
             lastSpace == LastIndexOf(searchRegion, <<" ">>)
             splitAt == IF 10 * lastSpace > 3 * maxSize THEN offset + lastSpace + 1
                        ELSE IF 2 * lastSentence > maxSize THEN offset + lastSentence + 2
                        ELSE offset + maxSize
         IN  <<[chunk |-> Substring(text, offset, splitAt), offset |-> offset]>>
               \o splitLoopSpaceFirst(text, maxSize, splitAt)

\* The loop of splitChunks from offset on: a sequence of
\* [chunk, offset] pairs.
\* The loop of splitChunks running while offset <= text.length, without the
\* early exit for the last chunk.
RECURSIVE splitLoopInclusive(_, _, _)
splitLoopInclusive(text, maxSize, offset) ==
    IF offset > Len(text) THEN <<>>
    ELSE LET searchEnd == Min(offset + maxSize, Len(text))
             searchRegion == Substring(text, offset, searchEnd)
             lastSentence == LastIndexOf(searchRegion, <<".", " ">>)
             lastSpace == LastIndexOf(searchRegion, <<" ">>)
             splitAt == IF 2 * lastSentence > maxSize THEN offset + lastSentence + 2
                        ELSE IF 10 * lastSpace > 3 * maxSize THEN offset + lastSpace + 1
                        ELSE offset + maxSize
         IN  <<[chunk |-> Substring(text, offset, Min(splitAt, Len(text))),
                offset |-> offset]>>
               \o splitLoopInclusive(text, maxSize, splitAt)

RECURSIVE splitLoop(_, _, _)
splitLoop(text, maxSize, offset) ==
    IF offset >= Len(text) THEN <<>>
    ELSE IF offset + maxSize >= Len(text)
    THEN <<[chunk |-> Substring(text, offset, Len(text)), offset |-> offset]>>
    ELSE LET searchEnd == Min(offset + maxSize, Len(text))
             searchRegion == Substring(text, offset, searchEnd)
             lastSentence == LastIndexOf(searchRegion, <<".", " ">>)
             lastSpace == LastIndexOf(searchRegion, <<" ">>)
             \* lastSentence > maxSize * 0.5 ; lastSpace > maxSize * 0.3
             splitAt == IF 2 * lastSentence > maxSize THEN offset + lastSentence + 2
                        ELSE IF 10 * lastSpace > 3 * maxSize THEN offset + lastSpace + 1
                        ELSE offset + maxSize
         IN  <<[chunk |-> Substring(text, offset, splitAt), offset |-> offset]>>
               \o splitLoop(text, maxSize, splitAt)

splitChunks(text, maxSize) ==
    LET parts == IF Len(text) <= maxSize
                 THEN <<[chunk |-> text, offset |-> 0]>>
                 ELSE splitLoop(text, maxSize, 0)
    IN  [chunks |-> [k \in 1..Len(parts) |-> parts[k].chunk],
         chunkOffsets |-> [k \in 1..Len(parts) |-> parts[k].offset]]

\* prepare: PreparedText {chunks, map, chunkOffsets}
prepare(raw, chunkSize, editorOffset) ==
    LET sm == stripMarkdown(raw, editorOffset)
        sc == splitChunks(sm.plainText, chunkSize)
    IN  IF Len(Trim(sm.plainText)) = 0
        THEN [chunks |-> <<>>, map |-> <<>>, chunkOffsets |-> <<>>]
        ELSE [chunks |-> sc.chunks, map |-> sm.map, chunkOffsets |-> sc.chunkOffsets]

\* The binary search of lookupEditorOffset on map[lo..hi] (0-based).
RECURSIVE bsearch(_, _, _, _)
bsearch(map, plainIndex, lo, hi) ==
    IF lo >= hi THEN lo
    ELSE LET mid == (lo + hi + 1) \div 2
         IN  IF map[mid + 1].plain <= plainIndex
             THEN bsearch(map, plainIndex, mid, hi)
             ELSE bsearch(map, plainIndex, lo, mid - 1)

\* An optional value (T | null): <<>> is null, <<x>> is the value x.
None == <<>>

Some(x) == <<x>>

\* lookupEditorOffset without the clamp to the first anchor.
lookupEditorOffsetNoClamp(map, plainIndex) ==
    IF Len(map) = 0 THEN None
    ELSE IF plainIndex >= map[Len(map)].plain
         THEN Some(map[Len(map)].editor + (plainIndex - map[Len(map)].plain))
    ELSE LET entry == map[bsearch(map, plainIndex, 0, Len(map) - 1) + 1]
         IN  Some(entry.editor + (plainIndex - entry.plain))

\* lookupEditorOffset without the extrapolation from the last anchor
lookupEditorOffsetNoExtrapolation(map, plainIndex) ==
    IF Len(map) = 0 THEN None
    ELSE IF plainIndex < map[1].plain THEN Some(map[1].editor)
    ELSE IF plainIndex >= map[Len(map)].plain
         THEN Some(map[Len(map)].editor)
    ELSE LET entry == map[bsearch(map, plainIndex, 0, Len(map) - 1) + 1]
         IN  Some(entry.editor + (plainIndex - entry.plain))

\* lookupEditorOffset; None when the map is empty
lookupEditorOffset(map, plainIndex) ==
    IF Len(map) = 0 THEN None
    ELSE IF plainIndex < map[1].plain THEN Some(map[1].editor)
    ELSE IF plainIndex >= map[Len(map)].plain
         THEN Some(map[Len(map)].editor + (plainIndex - map[Len(map)].plain))
    ELSE LET entry == map[bsearch(map, plainIndex, 0, Len(map) - 1) + 1]
         IN  Some(entry.editor + (plainIndex - entry.plain))

\* toEditorRange; None when there is no mapping
toEditorRange(map, plainFrom, plainTo) ==
    LET from == lookupEditorOffset(map, plainFrom)
        to == lookupEditorOffset(map, plainTo - 1)
    IN  IF Len(map) = 0 \/ from = None \/ to = None THEN None
        ELSE Some([from |-> from[1], to |-> to[1] + 1])

\* ------------------------------------------------------------------------
\* Bounds and inputs
\* ------------------------------------------------------------------------

\* settings.chunkSize used by the modelled sessions
SmallChunk == 5

\* Utterances the backend is handed in one run
MaxUtterances == 2

\* The notes that can be open. raw is the markdown source; readingNodes are
\* the text nodes of the rendered reading view; editorNodes are the text
\* nodes of the editor content DOM; widget is the set of source offsets
\* whose text the editor replaces by a widget (so a mark decoration there
\* is not rendered); widgetNodes are the editor text nodes that lie inside
\* a widget element (.cm-embed-block, .cm-widget, .cm-table-widget).
\* DocNote is a heading and a table row: with chunk size 5 its plain text
\* "Hi a b" makes the chunks "Hi a " and "b"; the editor renders the table
\* as a widget.
DocNote ==
    [raw |-> <<"#", " ", "H", "i", "\n", "|", "a", "|", "b", "|">>,
     readingNodes |-> << <<"H", "i">>, <<"a">>, <<"b">> >>,
     editorNodes |-> << <<"#", " ", "H", "i">>, <<"a">>, <<"b">> >>,
     widget |-> 5..9,
     widgetNodes |-> {2, 3}]

\* DocBlank is markup only: its plain text is empty.
DocBlank ==
    [raw |-> <<"*", "*", "\n">>,
     readingNodes |-> <<>>,
     editorNodes |-> << <<"*", "*">> >>,
     widget |-> {},
     widgetNodes |-> {}]

Docs == {DocNote, DocBlank}

\* DocEcho is a paragraph and a table row holding the same word: its plain
\* text "to to" is one chunk; the editor renders the table as a widget.
DocEcho ==
    [raw |-> <<"t", "o", "\n", "|", "t", "o", "|">>,
     readingNodes |-> << <<"t", "o">>, <<"t", "o">> >>,
     editorNodes |-> << <<"t", "o">>, <<"t", "o">> >>,
     widget |-> 3..6,
     widgetNodes |-> {2}]

\* Every note a session can be started on
Notes == Docs \cup {DocEcho}

\* Where playback starts in the open note (0: read aloud)
StartOffsets == {0}

\* The surface a session targets: the editor (source / live preview) or the
\* reading view
Targets == {"editor", "reading"}

\* Reasons of a backend error event
ErrorReasons == {"interrupted", "canceled", "synthesis-failed"}

\* Names of backend boundary events
BoundaryNames == {"word", "sentence"}

\* charLength values a boundary event may carry (0: missing or zero)
CharLengths == {0, 1}

\* charIndex values a boundary event may carry (word starts of the chunks)
CharIndices == {0, 3}

\* ------------------------------------------------------------------------
\* State
\* ------------------------------------------------------------------------

VARIABLES
    state,              \* PlaybackController.state
    prepared,           \* PlaybackController.prepared (optional PreparedText)
    currentChunk,       \* PlaybackController.currentChunk
    settings,           \* PlaybackController.settings (optional)
    editorView,         \* PlaybackController.editorView (optional: its note)
    readingContainer,   \* PlaybackController.readingContainer (optional: its note)
    lastHighlightFrame, \* PlaybackController.lastHighlightFrame (optional id)
    readingHighlighter, \* ReadingHighlighter of the reading view
    widgetHighlighter,  \* ReadingHighlighter of the editor widgets
    utterance,          \* SpeechEngine.utterance (optional utterance id)
    cancelled,          \* SpeechEngine.cancelled
    endFired,           \* SpeechEngine.endFired
    utts,               \* backend: the utterances handed to speechSynthesis
    synthPaused,        \* backend: speechSynthesis.paused
    frames,             \* browser: scheduled animation-frame callbacks
    deco,               \* editor: ttsHighlightField (optional range)
    docLen,             \* editor: length of the document
    out,                \* observable calls and events of the last step
    op,                 \* the last step: operation, arguments, state before
    session,            \* history of the current session
    conversion          \* TextPreparer alone: its last conversion (None before any)

vars ==
    <<state, prepared, currentChunk, settings, editorView, readingContainer,
      lastHighlightFrame, readingHighlighter, widgetHighlighter, utterance,
      cancelled, endFired, utts, synthPaused, frames, deco, docLen, out, op,
      session, conversion>>

\* The program state as one record, so that a handler and the handlers it
\* calls compose as functions from state to state.
World ==
    [state |-> state, prepared |-> prepared, currentChunk |-> currentChunk,
     settings |-> settings, editorView |-> editorView,
     readingContainer |-> readingContainer,
     lastHighlightFrame |-> lastHighlightFrame,
     readingHighlighter |-> readingHighlighter,
     widgetHighlighter |-> widgetHighlighter, utterance |-> utterance,
     cancelled |-> cancelled, endFired |-> endFired, utts |-> utts,
     synthPaused |-> synthPaused, frames |-> frames, deco |-> deco,
     docLen |-> docLen, out |-> <<>>, session |-> session]

\* An observable call or event: kind, and its arguments (unused ones are
\* "", 0 or <<>>).
Ev(kind, s, n, m, text) == [kind |-> kind, s |-> s, n |-> n, m |-> m, text |-> text]

Log(w, e) == [w EXCEPT !.out = Append(@, e)]

\* Number of events of a kind in a log
RECURSIVE Count(_, _)
Count(log, kind) ==
    IF log = <<>> THEN 0
    ELSE (IF Head(log).kind = kind THEN 1 ELSE 0) + Count(Tail(log), kind)

\* Index of the first event of a kind in a log, 0 when absent
FirstOf(log, kind) ==
    LET hits == {k \in 1..Len(log) : log[k].kind = kind}
    IN  IF hits = {} THEN 0 ELSE CHOOSE k \in hits : \A j \in hits : k <= j

\* ------------------------------------------------------------------------
\* ReadingHighlighter (sequential DOM word search)
\* ------------------------------------------------------------------------

SEARCH_BACKTRACK_CHARS == 20

\* The DOM containers handed to a highlighter: the reading view of a note
\* and the content DOM of the editor showing it.
ReadingContainerOf(doc) == [kind |-> "reading", nodes |-> doc.readingNodes]

ContentDOMOf(doc) == [kind |-> "editor", nodes |-> doc.editorNodes]

\* A fresh ReadingHighlighter. hl is the applied highlight (the CSS custom
\* highlight or the mark element), as the DOM range it covers.
NewHighlighter ==
    [searchOffset |-> 0, textNodes |-> <<>>, fullText |-> <<>>,
     cachedContainer |-> None, hl |-> None]

\* clear() that also rewinds the cursor.
hlClearAndRewind(h) == [h EXCEPT !.hl = None, !.searchOffset = 0]

\* clear()
hlClear(h) == [h EXCEPT !.hl = None]

\* reset()
hlReset(h) ==
    hlClear([h EXCEPT !.searchOffset = 0, !.textNodes = <<>>, !.fullText = <<>>,
                      !.cachedContainer = None])

\* The tree walk of buildIndex over nodes[k..], at cumulative offset.
RECURSIVE walkNodes(_, _, _)
walkNodes(nodes, k, offset) ==
    IF k > Len(nodes) THEN [textNodes |-> <<>>, fullText |-> <<>>]
    ELSE IF Len(nodes[k]) = 0 THEN walkNodes(nodes, k + 1, offset)
    ELSE LET rest == walkNodes(nodes, k + 1, offset + Len(nodes[k]))
         IN  [textNodes |-> <<[node |-> k, start |-> offset]>> \o rest.textNodes,
              fullText |-> nodes[k] \o rest.fullText]

\* buildIndex(container)
buildIndex(h, container) ==
    LET idx == walkNodes(container.nodes, 1, 0)
    IN  [h EXCEPT !.cachedContainer = Some(container),
                  !.textNodes = idx.textNodes, !.fullText = idx.fullText]

\* prepare(container)
hlPrepare(h, container) == buildIndex(hlReset(h), container)

\* createDomRange(from, to): the (node, offset) pair of each end, None when
\* an end falls in no indexed node.
createDomRange(h, from, to) ==
    LET n == Len(h.textNodes)
        nodeEnd(i) == h.textNodes[i].start
                        + Len(h.cachedContainer[1].nodes[h.textNodes[i].node])
        ends == {i \in 1..n : to <= nodeEnd(i)}
        endIdx == CHOOSE i \in ends : \A j \in ends : i <= j
        starts == {i \in 1..n : from < nodeEnd(i) /\ (ends = {} \/ i <= endIdx)}
        startIdx == CHOOSE i \in starts : \A j \in starts : i <= j
    IN  IF starts = {} \/ ends = {} THEN None
        ELSE Some([startNode |-> h.textNodes[startIdx].node,
                   startOffset |-> from - h.textNodes[startIdx].start,
                   endNode |-> h.textNodes[endIdx].node,
                   endOffset |-> to - h.textNodes[endIdx].start,
                   from |-> from, to |-> to])

\* highlightWord retrying from the start of the buffer.
highlightWordRetryFromStart(h, container, word) ==
    LET h1 == hlClear(h)
        h2 == IF Some(container) # h1.cachedContainer
              THEN buildIndex(h1, container) ELSE h1
        ahead == IndexOf(h2.fullText, word, h2.searchOffset)
        idx == IF ahead = -1 THEN IndexOf(h2.fullText, word, 0) ELSE ahead
        h3 == [h2 EXCEPT !.searchOffset = idx + Len(word)]
    IN  IF Len(h2.fullText) = 0 \/ Len(word) = 0 THEN h2
        ELSE IF idx = -1 THEN h2
        ELSE [h3 EXCEPT !.hl = createDomRange(h3, idx, idx + Len(word))]

\* highlightWord leaving the cursor on the start of the match.
highlightWordCursorAtMatch(h, container, word) ==
    LET h1 == hlClear(h)
        h2 == IF Some(container) # h1.cachedContainer
              THEN buildIndex(h1, container) ELSE h1
        ahead == IndexOf(h2.fullText, word, h2.searchOffset)
        backtrack == Max(0, h2.searchOffset - SEARCH_BACKTRACK_CHARS)
        idx == IF ahead = -1 THEN IndexOf(h2.fullText, word, backtrack) ELSE ahead
        h3 == [h2 EXCEPT !.searchOffset = idx]
    IN  IF Len(h2.fullText) = 0 \/ Len(word) = 0 THEN h2
        ELSE IF idx = -1 THEN h2
        ELSE [h3 EXCEPT !.hl = createDomRange(h3, idx, idx + Len(word))]

\* highlightWord(container, word)
highlightWord(h, container, word) ==
    LET h1 == hlClear(h)
        h2 == IF Some(container) # h1.cachedContainer
              THEN buildIndex(h1, container) ELSE h1
        ahead == IndexOf(h2.fullText, word, h2.searchOffset)
        backtrack == Max(0, h2.searchOffset - SEARCH_BACKTRACK_CHARS)
        idx == IF ahead = -1 THEN IndexOf(h2.fullText, word, backtrack) ELSE ahead
        h3 == [h2 EXCEPT !.searchOffset = idx + Len(word)]
    IN  IF Len(h2.fullText) = 0 \/ Len(word) = 0 THEN h2
        ELSE IF idx = -1 THEN h2
        ELSE [h3 EXCEPT !.hl = createDomRange(h3, idx, idx + Len(word))]

\* ------------------------------------------------------------------------
\* The CM6 highlight field
\* ------------------------------------------------------------------------

\* ttsHighlightField.update applying the last highlight effect of the
\* transaction
fieldUpdateLast(decorations, effects, docLength) ==
    IF effects = <<>> THEN decorations
    ELSE IF effects[Len(effects)] = None THEN None
    ELSE LET clampedFrom == Max(0, Min(effects[Len(effects)][1].from, docLength))
             clampedTo == Max(clampedFrom, Min(effects[Len(effects)][1].to, docLength))
         IN  IF clampedFrom = clampedTo THEN None
             ELSE Some([from |-> clampedFrom, to |-> clampedTo])

\* ttsHighlightField.update for a transaction carrying `effects` (a sequence
\* of setTTSHighlight values, each an optional range) and no document
\* change.
fieldUpdate(decorations, effects, docLength) ==
    IF effects = <<>> THEN decorations
    ELSE IF effects[1] = None THEN None
    ELSE LET clampedFrom == Max(0, Min(effects[1][1].from, docLength))
             clampedTo == Max(clampedFrom, Min(effects[1][1].to, docLength))
         IN  IF clampedFrom = clampedTo THEN None
             ELSE Some([from |-> clampedFrom, to |-> clampedTo])

\* editorView.dispatch({effects: setTTSHighlight.of(value)})
dispatchHighlight(w, value) ==
    [w EXCEPT !.deco = fieldUpdate(@, <<value>>, w.docLen)]

\* editorView.dom.querySelector(".tts-word-current") finds an element: the
\* decoration covers text the editor renders itself (outside the widgets).
MarkRendered(w) ==
    /\ w.deco # None
    /\ \E k \in w.deco[1].from..(w.deco[1].to - 1) : k \notin w.editorView[1].widget

\* ------------------------------------------------------------------------
\* Browser animation frames
\* ------------------------------------------------------------------------

\* requestAnimationFrame(callback): the callback is the closure over
\* (editorRange, wordText). Ids of fired or cancelled frames are never used
\* again by the program, so the smallest free id stands for a fresh one.
FreshFrameId(w) == CHOOSE id \in 0..Cardinality(w.frames) :
                       \A f \in w.frames : f.id # id

requestAnimationFrame(w, range, word) ==
    Log([w EXCEPT !.frames = @ \cup {[id |-> FreshFrameId(w), range |-> range,
                                       word |-> word]}],
        Ev("requestFrame", "", range.from, range.to, word))

\* cancelAnimationFrame(id)
cancelAnimationFrame(w, id) ==
    Log([w EXCEPT !.frames = {f \in @ : f.id # id}], Ev("cancelFrame", "", id, 0, <<>>))

\* ------------------------------------------------------------------------
\* SpeechEngine and the speech backend (window.speechSynthesis)
\* ------------------------------------------------------------------------

\* The backend is a black box: utts lists the utterances it was handed, in
\* order (an utterance is known by its index), each with its text and
\* whether an end event has been delivered for it. The backend may deliver
\* a boundary, end or error event of any utterance it was handed at any
\* time: late (after a cancel) and more than once.

\* window.speechSynthesis.cancel()
synthCancel(w) == Log(w, Ev("synth.cancel", "", 0, 0, <<>>))

\* window.speechSynthesis.speak(utterance)
synthSpeak(w, text) ==
    Log([w EXCEPT !.utts = Append(@, [text |-> text, ended |-> FALSE])],
        Ev("synth.speak", "", Len(w.utts) + 1, 0, text))

\* SpeechEngine.cancel()
engineCancel(w) ==
    LET w1 == synthCancel([w EXCEPT !.cancelled = TRUE])
        w2 == IF w1.utterance # None /\ ~w1.endFired
              THEN [w1 EXCEPT !.endFired = TRUE] ELSE w1
    IN  [w2 EXCEPT !.utterance = None]

\* SpeechEngine.speak(text, settings)
engineSpeak(w, text) ==
    LET w1 == engineCancel(w)
        w2 == [w1 EXCEPT !.cancelled = FALSE, !.endFired = FALSE,
                         !.utterance = Some(Len(w1.utts) + 1)]
    IN  synthSpeak(w2, text)

\* SpeechEngine.pause()
enginePause(w) == Log([w EXCEPT !.synthPaused = TRUE], Ev("synth.pause", "", 0, 0, <<>>))

\* SpeechEngine.resume()
engineResume(w) == Log([w EXCEPT !.synthPaused = FALSE], Ev("synth.resume", "", 0, 0, <<>>))

\* inferWordLength without the minimum of 1
inferWordLengthNoMin(text, charIndex) ==
    LET stops == {k \in charIndex..(Len(text) - 1) : At(text, k) \in WS}
        end == IF charIndex >= Len(text) THEN charIndex
               ELSE IF stops = {} THEN Len(text)
               ELSE CHOOSE k \in stops : \A j \in stops : k <= j
    IN  end - charIndex

\* SpeechEngine.inferWordLength(text, charIndex)
inferWordLength(text, charIndex) ==
    LET stops == {k \in charIndex..(Len(text) - 1) : At(text, k) \in WS}
        end == IF charIndex >= Len(text) THEN charIndex
               ELSE IF stops = {} THEN Len(text)
               ELSE CHOOSE k \in stops : \A j \in stops : k <= j
    IN  Max(1, end - charIndex)

\* ------------------------------------------------------------------------
\* PlaybackController
\* ------------------------------------------------------------------------

\* getTotalChunks()
getTotalChunks(w) == IF w.prepared = None THEN 0 ELSE Len(w.prepared[1].chunks)

\* emitStateChange()
emitStateChange(w) ==
    Log(w, Ev("state", w.state, w.currentChunk, getTotalChunks(w), <<>>))

\* setState(state)
setState(w, s) == emitStateChange([w EXCEPT !.state = s])

\* onEnd notified twice
emitEndTwice(w) == Log(Log(w, Ev("end", "", 0, 0, <<>>)), Ev("end", "", 0, 0, <<>>))

\* this.onEnd?.()
emitEnd(w) == Log(w, Ev("end", "", 0, 0, <<>>))

\* clearHighlight() that leaves the scheduled frame alone
clearHighlightKeepFrame(w) ==
    LET w2 == [w EXCEPT !.widgetHighlighter = hlClear(@),
                        !.readingHighlighter = hlClear(@)]
    IN  IF w2.editorView # None THEN dispatchHighlight(w2, None) ELSE w2

\* clearHighlight()
clearHighlight(w) ==
    LET w1 == IF w.lastHighlightFrame # None
              THEN [cancelAnimationFrame(w, w.lastHighlightFrame[1])
                      EXCEPT !.lastHighlightFrame = None]
              ELSE w
        w2 == [w1 EXCEPT !.widgetHighlighter = hlClear(@),
                         !.readingHighlighter = hlClear(@)]
    IN  IF w2.editorView # None THEN dispatchHighlight(w2, None) ELSE w2

\* stop() that does not clear the highlights
stopKeepHighlight(w) ==
    IF w.state = "idle" THEN w
    ELSE LET w1 == engineCancel(w)
             w2 == [w1 EXCEPT !.readingHighlighter = hlReset(@),
                              !.widgetHighlighter = hlReset(@)]
             w3 == setState(w2, "idle")
         IN  emitEnd([w3 EXCEPT !.prepared = None])

\* stop()
stop(w) ==
    IF w.state = "idle" THEN w
    ELSE LET w1 == clearHighlight(engineCancel(w))
             w2 == [w1 EXCEPT !.readingHighlighter = hlReset(@),
                              !.widgetHighlighter = hlReset(@)]
             w3 == setState(w2, "idle")
         IN  emitEnd([w3 EXCEPT !.prepared = None])

\* speakCurrentChunk()
speakCurrentChunk(w) ==
    IF w.prepared = None \/ w.settings = None THEN w
    ELSE IF w.currentChunk >= Len(w.prepared[1].chunks)
         THEN emitEnd(setState(clearHighlight(w), "idle"))
         ELSE engineSpeak(Log(w, Ev("dispatch", "", w.currentChunk, 0,
                                    w.prepared[1].chunks[w.currentChunk + 1])),
                          w.prepared[1].chunks[w.currentChunk + 1])

\* this.preparer.prepare(rawText, settings.chunkSize, editorOffset) for the
\* text of a note from an offset on. prepare is a pure function of its
\* arguments, so its results on the inputs of the model are tabulated.
PreparedTable ==
    [d \in Notes, o \in StartOffsets |->
        prepare(Substring(d.raw, o, Len(d.raw)), SmallChunk, o)]

\* play() that starts although there is nothing to speak
startPlaybackAlways(w) ==
    LET w3 == IF w.readingContainer # None
              THEN [w EXCEPT !.readingHighlighter =
                                hlPrepare(@, ReadingContainerOf(w.readingContainer[1]))]
              ELSE w
        w4 == IF w3.editorView # None
              THEN [w3 EXCEPT !.widgetHighlighter = hlReset(@)] ELSE w3
    IN  speakCurrentChunk(setState([w4 EXCEPT !.currentChunk = 0], "playing"))

\* play() once this.prepared is assigned: the early return when there is
\* nothing to speak, the DOM searchers, chunk 0.
startPlayback(w) ==
    LET w3 == IF w.readingContainer # None
              THEN [w EXCEPT !.readingHighlighter =
                                hlPrepare(@, ReadingContainerOf(w.readingContainer[1]))]
              ELSE w
        w4 == IF w3.editorView # None
              THEN [w3 EXCEPT !.widgetHighlighter = hlReset(@)] ELSE w3
    IN  IF Len(w.prepared[1].chunks) = 0 THEN w
        ELSE speakCurrentChunk(setState([w4 EXCEPT !.currentChunk = 0], "playing"))

\* play() that does not tear down the session in progress
playNoStop(w, doc, chunkSize, view, container, editorOffset) ==
    startPlayback([w EXCEPT !.settings = Some([chunkSize |-> chunkSize]),
                            !.editorView = view,
                            !.readingContainer = container,
                            !.prepared = Some(PreparedTable[doc, editorOffset])])

\* play(rawText, settings, editorView, readingContainer, editorOffset) with
\* rawText the text of note doc from editorOffset on; view and container
\* are optional notes.
play(w, doc, chunkSize, view, container, editorOffset) ==
    startPlayback([stop(w) EXCEPT !.settings = Some([chunkSize |-> chunkSize]),
                                  !.editorView = view,
                                  !.readingContainer = container,
                                  !.prepared = Some(PreparedTable[doc, editorOffset])])

\* pause() without its state guard
pauseUnguarded(w) == setState(enginePause(w), "paused")

\* pause()
pause(w) ==
    IF w.state # "playing" THEN w ELSE setState(enginePause(w), "paused")

\* resume() without its state guard
resumeUnguarded(w) == setState(engineResume(w), "playing")

\* resume()
resume(w) ==
    IF w.state # "paused" THEN w ELSE setState(engineResume(w), "playing")

\* togglePause()
togglePause(w) ==
    IF w.state = "playing" THEN pause(w)
    ELSE IF w.state = "paused" THEN resume(w)
    ELSE w

\* notifyDocumentChanged()
notifyDocumentChanged(w) == IF w.state # "idle" THEN stop(w) ELSE w

\* handleBoundary() honored in every state of a session
handleBoundaryAnyState(w, charIndex, charLength) ==
    IF w.prepared = None THEN w
    ELSE LET p == w.prepared[1]
             chunkOffset == IF w.currentChunk < Len(p.chunkOffsets)
                            THEN p.chunkOffsets[w.currentChunk + 1] ELSE 0
             globalPlainFrom == chunkOffset + charIndex
             globalPlainTo == globalPlainFrom + charLength
             editorRange == toEditorRange(p.map, globalPlainFrom, globalPlainTo)
             wordText == IF w.currentChunk < Len(p.chunks)
                         THEN Substring(p.chunks[w.currentChunk + 1], charIndex,
                                        charIndex + charLength)
                         ELSE <<>>
             w1 == IF w.lastHighlightFrame # None
                   THEN cancelAnimationFrame(w, w.lastHighlightFrame[1]) ELSE w
         IN  IF editorRange = None THEN w
             ELSE [requestAnimationFrame(w1, editorRange[1], wordText)
                     EXCEPT !.lastHighlightFrame = Some(FreshFrameId(w1))]

\* handleBoundary() that does not cancel the request still pending
handleBoundaryNoCancel(w, charIndex, charLength) ==
    IF w.prepared = None \/ w.state # "playing" THEN w
    ELSE LET p == w.prepared[1]
             chunkOffset == IF w.currentChunk < Len(p.chunkOffsets)
                            THEN p.chunkOffsets[w.currentChunk + 1] ELSE 0
             globalPlainFrom == chunkOffset + charIndex
             globalPlainTo == globalPlainFrom + charLength
             editorRange == toEditorRange(p.map, globalPlainFrom, globalPlainTo)
             wordText == Substring(p.chunks[w.currentChunk + 1], charIndex,
                                   charIndex + charLength)
         IN  IF editorRange = None THEN w
             ELSE [requestAnimationFrame(w, editorRange[1], wordText)
                     EXCEPT !.lastHighlightFrame = Some(FreshFrameId(w))]

\* handleBoundary(charIndex, charLength)
handleBoundary(w, charIndex, charLength) ==
    IF w.prepared = None \/ w.state # "playing" THEN w
    ELSE LET p == w.prepared[1]
             chunkOffset == IF w.currentChunk < Len(p.chunkOffsets)
                            THEN p.chunkOffsets[w.currentChunk + 1] ELSE 0
             globalPlainFrom == chunkOffset + charIndex
             globalPlainTo == globalPlainFrom + charLength
             editorRange == toEditorRange(p.map, globalPlainFrom, globalPlainTo)
             wordText == Substring(p.chunks[w.currentChunk + 1], charIndex,
                                   charIndex + charLength)
             w1 == IF w.lastHighlightFrame # None
                   THEN cancelAnimationFrame(w, w.lastHighlightFrame[1]) ELSE w
         IN  IF editorRange = None THEN w
             ELSE [requestAnimationFrame(w1, editorRange[1], wordText)
                     EXCEPT !.lastHighlightFrame = Some(FreshFrameId(w1))]

\* highlightInWidgets(word)
highlightInWidgets(w, word) ==
    IF w.editorView = None THEN w
    ELSE IF w.editorView[1].widget = {} THEN w
    ELSE [w EXCEPT !.widgetHighlighter =
                      highlightWord(@, ContentDOMOf(w.editorView[1]), word)]

\* applyHighlight(editorRange, wordText); scrolling is not modelled.
applyHighlight(w, editorRange, wordText) ==
    LET onHighlight == Ev("highlight", "", editorRange.from, editorRange.to, wordText)
        e1 == dispatchHighlight([w EXCEPT !.widgetHighlighter = hlClear(@)],
                                Some(editorRange))
        e2 == IF ~MarkRendered(e1) THEN highlightInWidgets(e1, wordText) ELSE e1
    IN  IF w.readingContainer # None
        THEN Log([w EXCEPT !.readingHighlighter =
                     highlightWord(@, ReadingContainerOf(w.readingContainer[1]), wordText)],
                 onHighlight)
        ELSE IF w.editorView # None THEN Log(e2, onHighlight)
        ELSE Log(w, onHighlight)

\* The animation-frame callback scheduled by handleBoundary
frameCallback(w, f) ==
    applyHighlight([w EXCEPT !.lastHighlightFrame = None], f.range, f.word)

\* handleChunkEnd() that advances past the next chunk
handleChunkEndSkip(w) ==
    IF w.state # "playing" \/ w.prepared = None THEN w
    ELSE LET w1 == [w EXCEPT !.currentChunk = @ + 2]
         IN  IF w1.currentChunk < Len(w1.prepared[1].chunks)
             THEN speakCurrentChunk(emitStateChange(w1))
             ELSE emitEnd(setState(clearHighlight(w1), "idle"))

\* handleChunkEnd() comparing the advanced index with <=
handleChunkEndLate(w) ==
    IF w.state # "playing" \/ w.prepared = None THEN w
    ELSE LET w1 == [w EXCEPT !.currentChunk = @ + 1]
         IN  IF w1.currentChunk <= Len(w1.prepared[1].chunks)
             THEN speakCurrentChunk(emitStateChange(w1))
             ELSE emitEnd(setState(clearHighlight(w1), "idle"))

\* handleChunkEnd()
handleChunkEnd(w) ==
    IF w.state # "playing" \/ w.prepared = None THEN w
    ELSE LET w1 == [w EXCEPT !.currentChunk = @ + 1]
         IN  IF w1.currentChunk < Len(w1.prepared[1].chunks)
             THEN speakCurrentChunk(emitStateChange(w1))
             ELSE emitEnd(setState(clearHighlight(w1), "idle"))

\* handleError(error)
handleError(w, error) == stop(Log(w, Ev("console.error", error, 0, 0, <<>>)))

\* utterance.onboundary: the length passed on; a charLength that is
\* missing or zero is written 0.
boundaryLength(text, charIndex, charLength) ==
    IF charLength = 0 THEN inferWordLength(text, charIndex) ELSE charLength

\* utterance.onboundary: the arguments of the onBoundary call made for the
\* event, None when the event is dropped.
forwardedBoundary(text, name, charIndex, charLength) ==
    IF name # "word" THEN None
    ELSE Some([charIndex |-> charIndex,
               charLength |-> boundaryLength(text, charIndex, charLength)])

\* utterance.onboundary of the utterance speaking `text`
onboundary(w, text, name, charIndex, charLength) ==
    LET call == forwardedBoundary(text, name, charIndex, charLength)
    IN  IF call = None THEN w
        ELSE handleBoundary(w, call[1].charIndex, call[1].charLength)

\* utterance.onend
onend(w) ==
    IF w.endFired THEN w ELSE handleChunkEnd([w EXCEPT !.endFired = TRUE])

\* utterance.onerror that forwards every reason
onerrorForwardAll(w, reason) == handleError(w, reason)

\* utterance.onerror
onerror(w, reason) ==
    IF reason = "interrupted" \/ reason = "canceled" THEN w ELSE handleError(w, reason)

\* ------------------------------------------------------------------------
\* Initial state and steps
\* ------------------------------------------------------------------------

\* The last step taken: the operation, the controller state it was called
\* in, the utterance an end event belongs to (0 otherwise) and the string
\* argument of the operation. event is None, or the backend boundary event
\* of the step with the call it was forwarded as.
Op(name, u, arg) ==
    [name |-> name, pre |-> state, u |-> u, arg |-> arg, event |-> None]

\* Chunk indices of the dispatch events of a log
RECURSIVE Dispatches(_)
Dispatches(log) ==
    IF log = <<>> THEN <<>>
    ELSE (IF Head(log).kind = "dispatch" THEN <<Head(log).n>> ELSE <<>>)
           \o Dispatches(Tail(log))

\* The state after a step that took the program to w under operation o.
\* session.dispatched: chunk indices dispatched since the last play().
Commit(w, o) ==
    /\ state' = w.state
    /\ prepared' = w.prepared
    /\ currentChunk' = w.currentChunk
    /\ settings' = w.settings
    /\ editorView' = w.editorView
    /\ readingContainer' = w.readingContainer
    /\ lastHighlightFrame' = w.lastHighlightFrame
    /\ readingHighlighter' = w.readingHighlighter
    /\ widgetHighlighter' = w.widgetHighlighter
    /\ utterance' = w.utterance
    /\ cancelled' = w.cancelled
    /\ endFired' = w.endFired
    /\ utts' = w.utts
    /\ synthPaused' = w.synthPaused
    /\ frames' = w.frames
    /\ deco' = w.deco
    /\ docLen' = w.docLen
    /\ out' = w.out
    /\ op' = o
    /\ session' = [dispatched |-> IF o.name = "play" THEN Dispatches(w.out)
                                  ELSE session.dispatched \o Dispatches(w.out)]
    /\ conversion' = conversion

\* A conversion by TextPreparer as one record: the arguments of prepare(),
\* the scan fin of stripMarkdown, its result sm, the chunker's result on
\* the plain text and the PreparedText returned. edits counts the
\* characters typed into the source since it was opened.
ConversionOf(raw, chunkSize, editorOffset, edits, fin, sm) ==
    [raw |-> raw, chunkSize |-> chunkSize, editorOffset |-> editorOffset,
     edits |-> edits, out |-> fin.out, origin |-> fin.origin,
     plainText |-> sm.plainText, map |-> sm.map,
     split |-> splitChunks(sm.plainText, chunkSize),
     prepared |-> prepare(raw, chunkSize, editorOffset)]

\* prepare(raw, chunkSize, editorOffset) and what it computed on the way
Converted(raw, chunkSize, editorOffset, edits) ==
    ConversionOf(raw, chunkSize, editorOffset, edits,
                 scanMarkdown(raw, editorOffset), stripMarkdown(raw, editorOffset))

\* The plugin after onload: a new PlaybackController, SpeechEngine and
\* highlighters, nothing scheduled, no note open.
ControllerInit ==
    /\ state = "idle"
    /\ prepared = None
    /\ currentChunk = 0
    /\ settings = None
    /\ editorView = None
    /\ readingContainer = None
    /\ lastHighlightFrame = None
    /\ readingHighlighter = NewHighlighter
    /\ widgetHighlighter = NewHighlighter
    /\ utterance = None
    /\ cancelled = FALSE
    /\ endFired = FALSE
    /\ utts = <<>>
    /\ synthPaused = FALSE
    /\ frames = {}
    /\ deco = None
    /\ docLen = 0
    /\ out = <<>>
    /\ op = [name |-> "init", pre |-> "idle", u |-> 0, arg |-> "", event |-> None]
    /\ session = [dispatched |-> <<>>]

\* No note has been converted yet.
Init ==
    /\ ControllerInit
    /\ conversion = None

\* readAloud: play() on the open note (the document of the editor), from a
\* start offset, on the editor or on the reading view.
Play(doc, offset, target) ==
    LET w == play([World EXCEPT !.docLen = Len(doc.raw)],
                  doc, SmallChunk,
                  IF target = "editor" THEN Some(doc) ELSE None,
                  IF target = "reading" THEN Some(doc) ELSE None,
                  offset)
    IN  /\ offset <= Len(doc.raw)
        /\ Len(w.utts) <= MaxUtterances
        /\ Commit(w, Op("play", 0, target))

Pause == Commit(pause(World), Op("pause", 0, ""))

Resume == Commit(resume(World), Op("resume", 0, ""))

TogglePause == Commit(togglePause(World), Op("togglePause", 0, ""))

Stop == Commit(stop(World), Op("stop", 0, ""))

NotifyDocumentChanged ==
    Commit(notifyDocumentChanged(World), Op("notifyDocumentChanged", 0, ""))

\* The active-leaf-change handler of the plugin
ActiveLeafChange ==
    Commit(IF state # "idle" THEN stop(World) ELSE World, Op("leafChange", 0, ""))

\* A document change in the editor: the field maps the decoration through
\* the change (keep = FALSE: the edit deleted the decorated text), then
\* docChangeListener calls the plugin callback when a decoration is left.
EditorDocChange(keep) ==
    LET w1 == [World EXCEPT !.deco = IF keep THEN @ ELSE None]
        w2 == IF w1.deco # None /\ w1.state # "idle" THEN stop(w1) ELSE w1
    IN  Commit(w2, Op("docChange", 0, IF keep THEN "keep" ELSE "delete"))

\* The backend fires a boundary event on utterance u.
BackendBoundary(u, name, charIndex, charLength) ==
    /\ charIndex < Len(utts[u].text)
    /\ Commit(onboundary(World, utts[u].text, name, charIndex, charLength),
              Op("boundary", u, name))

\* The backend fires an end event on utterance u.
BackendEnd(u) ==
    LET w == onend([World EXCEPT !.utts[u].ended = TRUE])
    IN  /\ Len(w.utts) <= MaxUtterances
        /\ Commit(w, Op("end", u, ""))

\* The backend fires an error event on one of its utterances.
BackendError(reason) ==
    /\ utts # <<>>
    /\ Commit(onerror(World, reason), Op("error", 0, reason))

\* The browser runs a scheduled animation-frame callback.
FrameFire(f) ==
    Commit(frameCallback([World EXCEPT !.frames = @ \ {f}], f), Op("frame", 0, ""))

Next ==
    \/ \E doc \in Docs, offset \in StartOffsets, target \in Targets :
          Play(doc, offset, target)
    \/ Pause
    \/ Resume
    \/ TogglePause
    \/ Stop
    \/ NotifyDocumentChanged
    \/ ActiveLeafChange
    \/ \E keep \in BOOLEAN : EditorDocChange(keep)
    \/ \E u \in 1..Len(utts), name \in BoundaryNames, charLength \in CharLengths :
          \E charIndex \in CharIndices :
             BackendBoundary(u, name, charIndex, charLength)
    \/ \E u \in 1..Len(utts) : BackendEnd(u)
    \/ \E reason \in ErrorReasons : BackendError(reason)
    \/ \E f \in frames : FrameFire(f)

Spec == Init /\ [][Next]_vars

\* ------------------------------------------------------------------------
\* SpeechEngine on its own: texts spoken and boundary events of any shape
\* ------------------------------------------------------------------------

\* The texts handed to speak(): "Hi a ", "b" and "a<tab>b c"
SpokenTexts ==
    {<<"H", "i", " ", "a", " ">>, <<"b">>, <<"a", "\t", "b", " ", "c">>}

\* Largest charIndex of a boundary event
MaxCharIndex == 4

\* charLength values of a boundary event (0: missing or zero)
EventCharLengths == {0, 1, 2}

\* SpeechEngine.speak(text, settings)
EngineSpeak(text) ==
    /\ Len(utts) < MaxUtterances
    /\ Commit(engineSpeak(World, text), Op("speak", 0, ""))

\* The backend fires a boundary event on utterance u; the step keeps the
\* event and the onBoundary call made for it.
BoundaryEvent(u, name, charIndex, charLength) ==
    /\ charIndex < Len(utts[u].text)
    /\ Commit(onboundary(World, utts[u].text, name, charIndex, charLength),
              [Op("boundary", 0, name) EXCEPT !.event =
                  Some([text |-> utts[u].text, charIndex |-> charIndex,
                        charLength |-> charLength,
                        forwarded |-> forwardedBoundary(utts[u].text, name,
                                                        charIndex, charLength)])])

EngineNext ==
    \/ \E text \in SpokenTexts : EngineSpeak(text)
    \/ \E u \in 1..Len(utts), name \in BoundaryNames :
          \E charIndex \in 0..MaxCharIndex, charLength \in EventCharLengths :
             BoundaryEvent(u, name, charIndex, charLength)

EngineSpec == Init /\ [][EngineNext]_vars

\* ------------------------------------------------------------------------
\* ReadingHighlighter on its own: containers indexed and words searched
\* ------------------------------------------------------------------------

\* A rendered view with the text nodes "the cat ", "sat on the mat ", an
\* empty one and "and the cat ran": 38 characters, words that repeat, and
\* words further than SEARCH_BACKTRACK_CHARS before the end
LongContainer ==
    [kind |-> "reading",
     nodes |-> << <<"t", "h", "e", " ", "c", "a", "t", " ">>,
                  <<"s", "a", "t", " ", "o", "n", " ", "t", "h", "e", " ", "m", "a", "t", " ">>,
                  <<>>,
                  <<"a", "n", "d", " ", "t", "h", "e", " ", "c", "a", "t", " ", "r", "a", "n">> >>]

\* The containers handed to the highlighter
Containers == {LongContainer, ReadingContainerOf(DocNote)}

\* The words searched: "the", "cat", "sat", "ran", "dog" (in no
\* container), "a" and the empty word
SearchWords ==
    {<<"t", "h", "e">>, <<"c", "a", "t">>, <<"s", "a", "t">>, <<"r", "a", "n">>, <<"d", "o", "g">>, <<"a">>, <<>>}

\* A step of the highlighter: the operation, the highlighter before it and
\* the arguments of highlightWord.
HlOp(name, container, word) ==
    [Op(name, 0, "") EXCEPT !.event =
        Some([before |-> readingHighlighter, container |-> container,
              word |-> word])]

\* readingHighlighter.prepare(container)
HlPrepare(container) ==
    Commit([World EXCEPT !.readingHighlighter = hlPrepare(@, container)],
           HlOp("prepare", Some(container), <<>>))

\* readingHighlighter.reset()
HlReset ==
    Commit([World EXCEPT !.readingHighlighter = hlReset(@)],
           HlOp("reset", None, <<>>))

\* readingHighlighter.clear()
HlClear ==
    Commit([World EXCEPT !.readingHighlighter = hlClear(@)],
           HlOp("clear", None, <<>>))

\* readingHighlighter.highlightWord(container, word)
HlHighlightWord(container, word) ==
    Commit([World EXCEPT !.readingHighlighter = highlightWord(@, container, word)],
           HlOp("highlightWord", Some(container), word))

HighlighterNext ==
    \/ \E container \in Containers : HlPrepare(container)
    \/ HlReset
    \/ HlClear
    \/ \E container \in Containers, word \in SearchWords :
          HlHighlightWord(container, word)

HighlighterSpec == Init /\ [][HighlighterNext]_vars

\* ------------------------------------------------------------------------
\* TextPreparer on its own: sources typed into a note and converted
\* ------------------------------------------------------------------------

\* "# Title\n\nThis is **bold** text."
SourceTitle ==
    <<"#", " ", "T", "i", "t", "l", "e", "\n", "\n", "T", "h", "i", "s",
      " ", "i", "s", " ", "*", "*", "b", "o", "l", "d", "*", "*", " ", "t",
      "e", "x", "t", ".">>

\* "one two three four five"
SourceWords ==
    <<"o", "n", "e", " ", "t", "w", "o", " ", "t", "h", "r", "e", "e", " ",
      "f", "o", "u", "r", " ", "f", "i", "v", "e">>

\* frontmatter "k: v" followed by a blank line
SourceFrontmatter ==
    <<"-", "-", "-", "\n", "k", ":", " ", "v", "\n", "-", "-", "-", "\n",
      "\n">>

\* a link, an image, inline code, a wikilink, a quote, a tag, a numbered
\* item, a highlight, a table row with its separator, a list item
SourceMarkup ==
    <<"[", "x", "]", "(", "u", ")", " ", "!", "[", "i", "]", "(", "p", ")",
      " ", Backtick, "c", Backtick, " ", "[", "[", "w", "|", "d", "]", "]",
      "\n", ">", " ", "q", " ", "<", "b", ">", "t", "<", "/", "b", ">",
      "\n", "1", ".", " ", "n", " ", "=", "=", "h", "=", "=", "\n", "|",
      "r", "|", "s", "|", "\n", "|", "-", "|", "-", "|", "\n", "-", " ",
      "e", ".", " ", "f", "\n">>

\* "Go now. I am here": with chunk size 10 the first window holds a
\* sentence end and a later space
SourceSentences ==
    <<"G", "o", " ", "n", "o", "w", ".", " ", "I", " ", "a", "m", " ", "h",
      "e", "r", "e">>

\* The table row "| a | b |"
SourceTableRow == <<"|", " ", "a", " ", "|", " ", "b", " ", "|">>

\* "[See [[Note A|here]]](url)": a wikilink inside the text of a link
SourceNestedLink ==
    <<"[", "S", "e", "e", " ", "[", "[", "N", "o", "t", "e", " ", "A", "|",
      "h", "e", "r", "e", "]", "]", "]", "(", "u", "r", "l", ")">>

\* The sources a note is opened with
Sources ==
    {<<>>, SourceTitle, SourceWords, SourceSentences, SourceFrontmatter,
     SourceMarkup, SourceTableRow, SourceNestedLink}

\* Characters typed at the end of the source
Typed == {"a", " ", ".", "\n", "|"}

\* Characters typed into one note
MaxTyped == 3

\* settings.chunkSize values (maxChars of the chunker)
ChunkSizes == {1, 3, 5, 10, 40}

\* editorOffset values: 0 (read aloud) and a selection start
EditorOffsets == {0, 7}

controllerVars ==
    <<state, prepared, currentChunk, settings, editorView, readingContainer,
      lastHighlightFrame, readingHighlighter, widgetHighlighter, utterance,
      cancelled, endFired, utts, synthPaused, frames, deco, docLen, out, op,
      session>>

\* A note is opened and converted: prepare(raw, chunkSize, editorOffset).
TextInit ==
    /\ ControllerInit
    /\ \E raw \in Sources, chunkSize \in ChunkSizes, editorOffset \in EditorOffsets :
          conversion = Converted(raw, chunkSize, editorOffset, 0)

\* A character is typed at the end of the source and the note is converted
\* again with the same settings.
TypeChar(c) ==
    /\ conversion.edits < MaxTyped
    /\ conversion' = Converted(Append(conversion.raw, c), conversion.chunkSize,
                               conversion.editorOffset, conversion.edits + 1)
    /\ UNCHANGED controllerVars

TextNext == \E c \in Typed : TypeChar(c)

TextSpec == TextInit /\ [][TextNext]_vars

\* ------------------------------------------------------------------------
\* Vocabulary of the properties
\* ------------------------------------------------------------------------

\* The states announced by the state-change events of a log, in order
RECURSIVE States(_)
States(log) ==
    IF log = <<>> THEN <<>>
    ELSE (IF Head(log).kind = "state" THEN <<Head(log).s>> ELSE <<>>)
           \o States(Tail(log))

\* Calls made to window.speechSynthesis in a log
BackendCalls(log) ==
    Count(log, "synth.speak") + Count(log, "synth.cancel")
      + Count(log, "synth.pause") + Count(log, "synth.resume")

\* The controller state through the last step: before it, at each
\* state-change event, after it.
StateTrace == <<op.pre>> \o States(out) \o <<state>>

\* idle -> playing <-> paused -> idle
AllowedChanges ==
    {<<"idle", "playing">>, <<"playing", "paused">>, <<"paused", "playing">>,
     <<"playing", "idle">>, <<"paused", "idle">>}

\* The fields of the controller, of the engine and of its surroundings
ControllerUnchanged ==
    UNCHANGED <<state, prepared, currentChunk, settings, editorView,
                readingContainer, lastHighlightFrame, readingHighlighter,
                widgetHighlighter>>

SurroundingsUnchanged ==
    UNCHANGED <<utterance, cancelled, endFired, utts, synthPaused, frames, deco>>

\* No highlight is shown: neither the editor decoration nor a DOM highlight
NoHighlightShown ==
    /\ deco = None
    /\ readingHighlighter.hl = None
    /\ widgetHighlighter.hl = None

\* A DOM searcher after reset()
IsReset(h) ==
    /\ h.searchOffset = 0
    /\ h.textNodes = <<>>
    /\ h.fullText = <<>>
    /\ h.cachedContainer = None
    /\ h.hl = None

\* ------------------------------------------------------------------------
\* C1. Every change of the controller state, over any sequence of
\* operations and backend callbacks, is one of idle->playing,
\* playing->paused, paused->playing, playing->idle, paused->idle; the state
\* never goes from idle to paused.
\* ------------------------------------------------------------------------
C1_StateChangesAllowed ==
    \A i \in 1..(Len(StateTrace) - 1) :
        StateTrace[i] # StateTrace[i + 1]
            => <<StateTrace[i], StateTrace[i + 1]>> \in AllowedChanges

\* A play() over a playing session: playing -> idle -> playing in one call
C1_Witness ==
    /\ op.name = "play"
    /\ op.pre = "playing"
    /\ States(out) = <<"idle", "playing">>
    /\ state = "playing"

\* ------------------------------------------------------------------------
\* C2. stop() while playing or paused cancels the backend utterance,
\* cancels any pending highlight frame, clears the editor and DOM
\* highlights, resets both DOM searchers, sets the state to idle, discards
\* the prepared text (getTotalChunks() = 0) and emits the end notification
\* exactly once; stop() while idle does none of these: no backend call, no
\* state-change event, no end notification, nothing changed.
\* ------------------------------------------------------------------------
C2_StopEffect ==
    /\ Count(out, "synth.cancel") = 1
    /\ BackendCalls(out) = 1
    /\ utterance = None
    /\ frames = {}
    /\ lastHighlightFrame = None
    /\ NoHighlightShown
    /\ IsReset(readingHighlighter)
    /\ IsReset(widgetHighlighter)
    /\ state = "idle"
    /\ States(out) = <<"idle">>
    /\ prepared = None
    /\ getTotalChunks(World) = 0
    /\ Count(out, "end") = 1

C2_Stop ==
    [][op'.name = "stop" =>
          IF state = "idle"
          THEN out' = <<>> /\ ControllerUnchanged /\ SurroundingsUnchanged
          ELSE C2_StopEffect' /\ (frames # {} => Count(out', "cancelFrame") = 1)]_vars

\* stop() on a playing session with a highlight frame pending
C2_Witness ==
    /\ op.name = "stop"
    /\ op.pre = "playing"
    /\ Count(out, "cancelFrame") = 1
    /\ state = "idle"

\* ------------------------------------------------------------------------
\* C3. pause() in a state other than playing and resume() in a state other
\* than paused change nothing: state, chunk index and prepared text are
\* unchanged, no backend pause/resume is issued, no state-change event is
\* emitted. pause() from playing yields paused and resume() from paused
\* yields playing, each with exactly one backend call and one state-change
\* event.
\* ------------------------------------------------------------------------
C3_PauseResume ==
    [][/\ (op'.name = "pause" /\ state # "playing")
            => out' = <<>> /\ ControllerUnchanged /\ SurroundingsUnchanged
       /\ (op'.name = "resume" /\ state # "paused")
            => out' = <<>> /\ ControllerUnchanged /\ SurroundingsUnchanged
       /\ (op'.name = "pause" /\ state = "playing")
            => /\ state' = "paused"
               /\ Count(out', "synth.pause") = 1
               /\ BackendCalls(out') = 1
               /\ States(out') = <<"paused">>
               /\ UNCHANGED <<currentChunk, prepared>>
       /\ (op'.name = "resume" /\ state = "paused")
            => /\ state' = "playing"
               /\ Count(out', "synth.resume") = 1
               /\ BackendCalls(out') = 1
               /\ States(out') = <<"playing">>
               /\ UNCHANGED <<currentChunk, prepared>>]_vars

\* resume() of a paused session
C3_Witness ==
    /\ op.name = "resume"
    /\ op.pre = "paused"
    /\ state = "playing"
    /\ out # <<>>

\* The note handed to the last play(), and the plain text its source
\* converts to
PlayedDoc == IF editorView # None THEN editorView[1] ELSE readingContainer[1]

PlainTextTable == [d \in Docs |-> stripMarkdown(d.raw, 0).plainText]

PlayedNothingToSpeak == Len(Trim(PlainTextTable[PlayedDoc])) = 0

\* Index in a log of the first state-change event announcing s, 0 when
\* absent
FirstState(log, s) ==
    LET hits == {k \in 1..Len(log) : log[k].kind = "state" /\ log[k].s = s}
    IN  IF hits = {} THEN 0 ELSE CHOOSE k \in hits : \A j \in hits : k <= j

\* ------------------------------------------------------------------------
\* C4. play() with a source whose plain text is non-empty, in any state,
\* ends with state playing, chunk index 0 and exactly chunk 0 dispatched
\* to the backend; when the prior state was playing or paused the old
\* session is torn down first (backend cancelled, highlights cleared, an
\* idle state-change event and the end notification of the old session
\* emitted) before the playing event of the new session.
\* ------------------------------------------------------------------------
C4_PlayStarts ==
    (op.name = "play" /\ ~PlayedNothingToSpeak) =>
        /\ state = "playing"
        /\ currentChunk = 0
        /\ Dispatches(out) = <<0>>
        /\ Count(out, "synth.speak") = 1
        /\ out[FirstOf(out, "synth.speak")].text = PreparedTable[PlayedDoc, 0].chunks[1]
        /\ utts[Len(utts)].text = PreparedTable[PlayedDoc, 0].chunks[1]
        /\ NoHighlightShown
        /\ frames = {}
        /\ IF op.pre = "idle"
           THEN States(out) = <<"playing">> /\ Count(out, "end") = 0
           ELSE /\ States(out) = <<"idle", "playing">>
                /\ Count(out, "end") = 1
                /\ 0 < FirstOf(out, "synth.cancel")
                /\ FirstOf(out, "synth.cancel") < FirstState(out, "idle")
                /\ FirstState(out, "idle") < FirstOf(out, "end")
                /\ FirstOf(out, "end") < FirstState(out, "playing")
                /\ FirstState(out, "playing") < FirstOf(out, "dispatch")

\* play() of a note with text over a paused session
C4_Witness ==
    /\ op.name = "play"
    /\ op.pre = "paused"
    /\ ~PlayedNothingToSpeak
    /\ Dispatches(out) = <<0>>

\* ------------------------------------------------------------------------
\* C5. play() with a source whose plain text is empty or whitespace-only
\* starts no playback: nothing is dispatched to the backend and no playing
\* event is emitted. Called while idle it changes no state and emits
\* nothing; called while playing or paused it first tears the session in
\* progress down (one backend cancel, one idle event, one end
\* notification) and leaves the controller idle.
\* ------------------------------------------------------------------------
C5_PlayNothingToSpeak ==
    (op.name = "play" /\ PlayedNothingToSpeak) =>
        /\ state = "idle"
        /\ Dispatches(out) = <<>>
        /\ Count(out, "synth.speak") = 0
        /\ FirstState(out, "playing") = 0
        /\ IF op.pre = "idle"
           THEN out = <<>>
           ELSE /\ States(out) = <<"idle">>
                /\ Count(out, "end") = 1
                /\ Count(out, "synth.cancel") = 1
                /\ BackendCalls(out) = 1

\* play() of a blank note over a paused session
C5_Witness ==
    /\ op.name = "play"
    /\ op.pre = "paused"
    /\ PlayedNothingToSpeak
    /\ state = "idle"

\* C5 as the specification states it: play() with nothing to speak, in
\* whatever state, leaves the state as it was, emits no state-change event
\* and dispatches nothing.
C5_AsStated ==
    (op.name = "play" /\ PlayedNothingToSpeak) =>
        /\ state = op.pre
        /\ States(out) = <<>>
        /\ Dispatches(out) = <<>>
        /\ Count(out, "synth.speak") = 0

\* The chunks dispatched in the session are 0, 1, 2, ... in this order
DispatchedInOrder ==
    \A i \in 1..Len(session.dispatched) : session.dispatched[i] = i - 1

\* ------------------------------------------------------------------------
\* C6. In a session of N chunks each end callback handled while playing
\* increments the chunk index by exactly one; if the new index is < N one
\* state-change event is emitted and exactly chunk[index] is dispatched,
\* otherwise the highlight is cleared, the state becomes idle and the end
\* notification is emitted. The chunks of a session are dispatched in
\* increasing order from 0, each once and none skipped, and a session
\* that completes has dispatched all N.
\* ------------------------------------------------------------------------
C6_ChunkEnd ==
    [][/\ DispatchedInOrder'
       /\ (op'.name = "end" /\ ~endFired /\ state = "playing" /\ prepared # None) =>
             /\ currentChunk' = currentChunk + 1
             /\ UNCHANGED prepared
             /\ IF currentChunk + 1 < Len(prepared[1].chunks)
                THEN /\ state' = "playing"
                     /\ States(out') = <<"playing">>
                     /\ out'[FirstOf(out', "state")].n = currentChunk + 1
                     /\ Dispatches(out') = <<currentChunk + 1>>
                     /\ Count(out', "synth.speak") = 1
                     /\ out'[FirstOf(out', "synth.speak")].text
                          = prepared[1].chunks[currentChunk + 2]
                     /\ Count(out', "end") = 0
                ELSE /\ state' = "idle"
                     /\ States(out') = <<"idle">>
                     /\ Count(out', "end") = 1
                     /\ Dispatches(out') = <<>>
                     /\ Count(out', "synth.speak") = 0
                     /\ NoHighlightShown'
                     /\ frames' = {}
                     /\ lastHighlightFrame' = None
                     /\ Len(session'.dispatched) = Len(prepared[1].chunks)]_vars

\* The end of the last chunk of a two-chunk session
C6_Witness ==
    /\ op.name = "end"
    /\ op.pre = "playing"
    /\ state = "idle"
    /\ session.dispatched = <<0, 1>>
    /\ Count(out, "end") = 1

\* ------------------------------------------------------------------------
\* C7. End handling is idempotent per utterance: only the first end event
\* delivered for an utterance advances the chunk index; every further end
\* event for the same utterance, also one delivered after the next chunk
\* was dispatched, is a no-op.
\* ------------------------------------------------------------------------
C7_EndIdempotentPerUtterance ==
    [][(op'.name = "end" /\ utts[op'.u].ended) =>
          /\ out' = <<>>
          /\ UNCHANGED <<state, currentChunk, prepared>>]_vars

\* ------------------------------------------------------------------------
\* C8. A boundary callback delivered while the state is idle or paused, or
\* while no prepared session exists, is not honored: it schedules no
\* highlight frame, cancels no pending frame, emits no highlight event and
\* changes no controller state.
\* ------------------------------------------------------------------------
C8_BoundaryNotHonored ==
    [][(op'.name = "boundary" /\ (state # "playing" \/ prepared = None)) =>
          /\ out' = <<>>
          /\ ControllerUnchanged
          /\ UNCHANGED <<frames, deco>>]_vars

\* A word boundary delivered to a paused session with a frame pending
C8_Witness ==
    /\ op.name = "boundary"
    /\ op.arg = "word"
    /\ op.pre = "paused"
    /\ state = "paused"
    /\ frames # {}

\* ------------------------------------------------------------------------
\* C9. At every moment at most one highlight request is pending: a boundary
\* event arriving while a previous request is not yet applied cancels that
\* request before scheduling its own, so of a burst of boundary events
\* between two display refreshes only the range and word of the last one
\* is applied and emitted.
\* ------------------------------------------------------------------------
C9_OnePendingRequest ==
    [][/\ Cardinality(frames') <= 1
       /\ (lastHighlightFrame' = None) <=> (frames' = {})
       /\ (op'.name = "boundary" /\ Count(out', "requestFrame") = 1) =>
             LET req == out'[FirstOf(out', "requestFrame")]
             IN  /\ \A f \in frames :
                       /\ Count(out', "cancelFrame") = 1
                       /\ out'[FirstOf(out', "cancelFrame")].n = f.id
                       /\ FirstOf(out', "cancelFrame") < FirstOf(out', "requestFrame")
                 /\ \E f \in frames' :
                       /\ frames' = {f}
                       /\ f.range = [from |-> req.n, to |-> req.m]
                       /\ f.word = req.text
                       /\ lastHighlightFrame' = Some(f.id)
       /\ (op'.name = "frame") =>
             \E f \in frames :
                 /\ frames = {f}
                 /\ frames' = {}
                 /\ Count(out', "highlight") = 1
                 /\ out'[FirstOf(out', "highlight")].n = f.range.from
                 /\ out'[FirstOf(out', "highlight")].m = f.range.to
                 /\ out'[FirstOf(out', "highlight")].text = f.word
                 /\ (editorView # None /\ readingContainer = None) =>
                       deco' = fieldUpdate(deco, <<Some(f.range)>>, docLen)]_vars

\* A boundary event that replaces the request still pending
C9_Witness ==
    /\ op.name = "boundary"
    /\ Count(out, "cancelFrame") = 1
    /\ Count(out, "requestFrame") = 1
    /\ Cardinality(frames) = 1

\* ------------------------------------------------------------------------
\* C10. Whenever the controller is idle, reached by stop(), by a backend
\* error or by the natural completion of the last chunk, no scheduled
\* highlight frame is pending; no highlight is applied and no highlight
\* event is emitted between entering idle and the next play() that enters
\* playing.
\* ------------------------------------------------------------------------
C10_IdleNoPendingFrame ==
    /\ state = "idle" =>
          /\ frames = {}
          /\ lastHighlightFrame = None
          /\ NoHighlightShown
    /\ op.pre = "idle" => Count(out, "highlight") = 0

\* The last chunk ends with a highlight frame pending
C10_Witness ==
    /\ op.name = "end"
    /\ op.pre = "playing"
    /\ state = "idle"
    /\ Count(out, "cancelFrame") = 1

\* ------------------------------------------------------------------------
\* C11. A backend error callback whose reason is "interrupted" or
\* "canceled" is swallowed: it is not forwarded to the controller and
\* changes no state. An error callback with any other reason received
\* while playing or paused stops the session entirely: backend cancelled,
\* highlights cleared, state idle, end notification emitted.
\* ------------------------------------------------------------------------
C11_BackendError ==
    [][op'.name = "error" =>
          IF op'.arg \in {"interrupted", "canceled"}
          THEN out' = <<>> /\ ControllerUnchanged /\ SurroundingsUnchanged
          ELSE /\ Count(out', "console.error") = 1
               /\ out'[FirstOf(out', "console.error")].s = op'.arg
               /\ state # "idle" =>
                     /\ Count(out', "synth.cancel") = 1
                     /\ BackendCalls(out') = 1
                     /\ utterance' = None
                     /\ frames' = {}
                     /\ lastHighlightFrame' = None
                     /\ NoHighlightShown'
                     /\ state' = "idle"
                     /\ States(out') = <<"idle">>
                     /\ prepared' = None
                     /\ Count(out', "end") = 1]_vars

\* A synthesis failure reported to a paused session
C11_Witness ==
    /\ op.name = "error"
    /\ op.arg = "synthesis-failed"
    /\ op.pre = "paused"
    /\ state = "idle"
    /\ Count(out, "end") = 1

\* ------------------------------------------------------------------------
\* C12. Any edit of the source document while the state is playing or
\* paused forces stop(): the controller is idle after the edit is
\* processed, on the editor and on the reading surface, whether or not a
\* word decoration is present in the editor.
\* ------------------------------------------------------------------------
C12_EditForcesStop ==
    [][(op'.name = "docChange" /\ state # "idle") =>
          /\ state' = "idle"
          /\ Count(out', "end") = 1]_vars

\* The text a DOM searcher has highlighted (<<>> when nothing is)
MatchedText(h) ==
    IF h.hl = None THEN <<>> ELSE Substring(h.fullText, h.hl[1].from, h.hl[1].to)

\* A find call of searcher h that left it as g: the cursor did not
\* decrease, and a match of the word matched by the call before starts
\* later in the buffer.
FindAdvances(h, g) ==
    /\ g.searchOffset >= h.searchOffset
    /\ (h.hl # None /\ g.hl # None /\ MatchedText(g) = MatchedText(h))
          => g.hl[1].from > h.hl[1].from

\* ------------------------------------------------------------------------
\* C13. Within one session (between two prepare/reset calls) the search
\* cursor never decreases, and successive find calls for the same word
\* return strictly increasing buffer start positions, so the same
\* occurrence is never matched twice, also when the forward search misses
\* and the backtrack retry is taken. (Every find call of a session is made
\* by an animation-frame callback; prepare and reset are made by play and
\* stop.)
\* ------------------------------------------------------------------------
C13_CursorMonotonic ==
    [][op'.name = "frame" =>
          /\ FindAdvances(readingHighlighter, readingHighlighter')
          /\ FindAdvances(widgetHighlighter, widgetHighlighter')]_vars

\* Number of leading whitespace characters the trim of stripMarkdown
\* removes from the emitted text
TrimmedLead(c) == Len(c.out) - Len(TrimStart(c.out))

\* The source index (relative to the converted text) the map gives for
\* plain offset p: lookup(map, p) - baseOffset; -1 when there is no mapping
SourceIndexOf(c, p) ==
    LET e == lookupEditorOffset(c.map, p)
    IN  IF e = None THEN -1 ELSE e[1] - c.editorOffset

\* The source index of the character the scan was on when it emitted the
\* character that ends up at plain offset p of the trimmed text
ProducerOf(c, p) == c.origin[TrimmedLead(c) + p + 1] - c.editorOffset

\* C14. Round trip of the offset map: for every converted source and base
\* offset and every offset p of the trimmed plain text, lookup(map, p) -
\* baseOffset is the index of the source character that produced plain
\* character p: the identical character for copied text, the newline or
\* the pipe for an inserted space. Sources whose conversion emits leading
\* whitespace that is trimmed (a leading newline, a blank line after the
\* frontmatter) are included.
C14_RoundTrip ==
    \A p \in 0..(Len(conversion.plainText) - 1) :
       LET k == SourceIndexOf(conversion, p)
       IN  /\ k = ProducerOf(conversion, p)
           /\ \/ At(conversion.raw, k) = At(conversion.plainText, p)
              \/ /\ At(conversion.plainText, p) = " "
                 /\ At(conversion.raw, k) \in {"\n", "|"}

\* The text "Title This is bold text."
TitlePlain ==
    <<"T", "i", "t", "l", "e", " ", "T", "h", "i", "s", " ", "i", "s", " ",
      "b", "o", "l", "d", " ", "t", "e", "x", "t", ".">>

\* C15. For the source "# Title\n\nThis is **bold** text." with a chunk
\* size larger than the text, prepare returns the single chunk
\* "Title This is bold text." (one space between "Title" and "This"), and
\* toEditorRange for the plain range of the word "bold" returns the source
\* range that starts at the letter b inside "**bold**" and has length 4.
C15_TitleScenario ==
    (conversion.raw = SourceTitle /\ conversion.chunkSize > Len(SourceTitle)) =>
       LET b == IndexOf(conversion.plainText, <<"b", "o", "l", "d">>, 0)
           src == IndexOf(SourceTitle, <<"b", "o", "l", "d">>, 0)
       IN  /\ conversion.prepared.chunks = <<TitlePlain>>
           /\ conversion.prepared.chunkOffsets = <<0>>
           /\ toEditorRange(conversion.prepared.map, b, b + 4)
                 = Some([from |-> conversion.editorOffset + src,
                         to |-> conversion.editorOffset + src + 4])

\* C16. For every source text and base offset, the anchors of the map
\* produced by the converter are strictly increasing in their plain
\* offset: no two anchors share a plain offset and none is out of order.
C16_MapMonotonic ==
    /\ \A k \in 1..(Len(conversion.map) - 1) :
          conversion.map[k].plain < conversion.map[k + 1].plain
    /\ \A k \in 1..(Len(conversion.prepared.map) - 1) :
          conversion.prepared.map[k].plain < conversion.prepared.map[k + 1].plain

\* The markup source converted from a selection start, a character typed:
\* a map of several anchors.
C16_Witness ==
    /\ conversion.edits > 0
    /\ conversion.editorOffset > 0
    /\ Len(conversion.prepared.map) >= 4

\* The texts of a sequence joined in order
RECURSIVE Joined(_)
Joined(texts) == IF texts = <<>> THEN <<>> ELSE Head(texts) \o Joined(Tail(texts))

\* chunks and chunkOffsets describe text cut into consecutive pieces
IsCutOf(chunks, chunkOffsets, text) ==
    /\ Len(chunkOffsets) = Len(chunks)
    /\ Joined(chunks) = text
    /\ \A i \in 1..Len(chunks) :
          /\ chunkOffsets[i] = Len(Joined(SubSeq(chunks, 1, i - 1)))
          /\ \A k \in 0..(Len(chunks[i]) - 1) :
                At(chunks[i], k) = At(text, chunkOffsets[i] + k)

\* C17. For every plain text and every maxChars >= 1 the chunks returned
\* by the chunker, joined in order, are the plain text exactly, and
\* chunkOffsets[i] is the sum of the lengths of the chunks before chunk i
\* (0 for the first), so chunkOffsets[i] + k is the plain offset of
\* character k of chunk i.
C17_ChunksRejoin ==
    /\ conversion.chunkSize >= 1
    /\ IsCutOf(conversion.split.chunks, conversion.split.chunkOffsets,
               conversion.plainText)
    /\ conversion.prepared.chunks # <<>> =>
          IsCutOf(conversion.prepared.chunks, conversion.prepared.chunkOffsets,
                  conversion.plainText)

\* An edited source cut into three or more chunks, one of them ending in a
\* space.
C17_Witness ==
    /\ conversion.edits > 0
    /\ Len(conversion.prepared.chunks) >= 3
    /\ \E i \in 1..Len(conversion.prepared.chunks) :
          /\ Len(conversion.prepared.chunks[i]) > 1
          /\ conversion.prepared.chunks[i][Len(conversion.prepared.chunks[i])] = " "

\* C18. For every plain text and every maxChars >= 1, every chunk except
\* possibly the last has length <= maxChars.
C18_ChunkSizeBound ==
    /\ \A i \in 1..(Len(conversion.split.chunks) - 1) :
          Len(conversion.split.chunks[i]) <= conversion.chunkSize
    /\ \A i \in 1..(Len(conversion.prepared.chunks) - 1) :
          Len(conversion.prepared.chunks[i]) <= conversion.chunkSize

\* An edited source cut into three or more chunks: one that fills the
\* window and a shorter one, neither the last.
C18_Witness ==
    /\ conversion.edits > 0
    /\ conversion.chunkSize > 1
    /\ \E i, j \in 1..(Len(conversion.prepared.chunks) - 1) :
          /\ Len(conversion.prepared.chunks[i]) = conversion.chunkSize
          /\ Len(conversion.prepared.chunks[j]) < conversion.chunkSize

\* The boundary at plain offset b falls inside a word
MidWord(text, b) == At(text, b - 1) # " " /\ At(text, b) # " "

\* The window holds a ". " at an index greater than 0.5 * maxChars or a
\* space at an index greater than 0.3 * maxChars
HasQualifyingBoundary(window, maxChars) ==
    \E j \in 0..(Len(window) - 1) :
       \/ 2 * j > maxChars /\ MatchAt(window, <<".", " ">>, j)
       \/ 10 * j > 3 * maxChars /\ At(window, j) = " "

\* The chunks "one two ", "three ", "four five"
WordsChunks ==
    << <<"o", "n", "e", " ", "t", "w", "o", " ">>,
       <<"t", "h", "r", "e", "e", " ">>,
       <<"f", "o", "u", "r", " ", "f", "i", "v", "e">> >>

\* The boundaries between chunks that fall inside a word
MidWordBoundaries(c) ==
    {i \in 1..(Len(c.split.chunks) - 1) :
        MidWord(c.plainText, c.split.chunkOffsets[i + 1])}

\* The window [offset, offset + maxChars) of chunk i
WindowOf(c, i) ==
    Substring(c.plainText, c.split.chunkOffsets[i],
              c.split.chunkOffsets[i] + c.chunkSize)

\* C19. A chunk boundary falls inside a word (the characters immediately
\* before and after it are both non-space) only when the window
\* [offset, offset + maxChars) holds neither a ". " at a window index
\* greater than 0.5 * maxChars nor a space at a window index greater than
\* 0.3 * maxChars; chunk size 10 on "one two three four five" gives
\* boundaries only directly after spaces.
C19_MidWordOnlyWithoutBoundary ==
    /\ \A i \in MidWordBoundaries(conversion) :
          ~HasQualifyingBoundary(WindowOf(conversion, i), conversion.chunkSize)
    /\ (conversion.raw = SourceWords /\ conversion.chunkSize = 10) =>
          /\ conversion.prepared.chunks = WordsChunks
          /\ MidWordBoundaries(conversion) = {}

\* An edited source with a boundary inside a word whose window holds a
\* space, too early in the window to qualify.
C19_Witness ==
    /\ conversion.edits > 0
    /\ \E i \in MidWordBoundaries(conversion) :
          \E j \in 1..Len(WindowOf(conversion, i)) : WindowOf(conversion, i)[j] = " "

\* The first index from charIndex on that holds a whitespace character, the
\* length of the text when there is none
NextStop(text, charIndex) ==
    LET ends == {k \in charIndex..Len(text) : k = Len(text) \/ At(text, k) \in WS}
    IN  CHOOSE k \in ends : \A j \in ends : k <= j

\* C20. Every boundary event forwarded to the controller carries a word
\* length >= 1: when the backend reports a missing or zero charLength the
\* length is the distance from charIndex to the next whitespace character
\* or to the end of the chunk text, and at least 1.
C20_ForwardedLength ==
    (op.name = "boundary" /\ op.event # None) =>
       LET e == op.event[1]
       IN  /\ (op.arg = "word") <=> (e.forwarded # None)
           /\ e.forwarded # None =>
                 /\ e.forwarded[1].charIndex = e.charIndex
                 /\ e.forwarded[1].charLength >= 1
                 /\ e.charLength = 0 =>
                       e.forwarded[1].charLength
                         = Max(1, NextStop(e.text, e.charIndex) - e.charIndex)

\* A word boundary without charLength whose charIndex is on a whitespace
\* character: forwarded with length 1.
C20_Witness ==
    /\ op.name = "boundary"
    /\ op.event # None
    /\ op.event[1].charLength = 0
    /\ At(op.event[1].text, op.event[1].charIndex) \in WS
    /\ op.event[1].forwarded = Some([charIndex |-> op.event[1].charIndex,
                                     charLength |-> 1])

\* The emitted characters (1-based positions of out) that are spaces put
\* there for a source pipe
PipeSpaces(c) ==
    {k \in 1..Len(c.out) :
        c.out[k] = " " /\ At(c.raw, c.origin[k] - c.editorOffset) = "|"}

\* No rule that copies a span of the source verbatim (inline code, image,
\* link, wikilink) can apply to the source
NoCopiedSpan(raw) == \A k \in 1..Len(raw) : raw[k] \notin {Backtick, "[", "!"}

\* C21. A table pipe contributes at most one space to the plain text, and
\* none when the previously emitted character is a space or nothing has
\* been emitted yet: the output holds no pipe character of a table row and
\* no pipe adds a space after a space; the row "| a | b |" converts to
\* "a b".
C21_TablePipe ==
    /\ \A k \in PipeSpaces(conversion) :
          /\ k > 1
          /\ conversion.out[k - 1] # " "
          /\ \A j \in PipeSpaces(conversion) :
                j # k => conversion.origin[j] # conversion.origin[k]
    /\ NoCopiedSpan(conversion.raw) =>
          \A k \in 1..Len(conversion.out) : conversion.out[k] # "|"
    /\ conversion.raw = SourceTableRow =>
          conversion.plainText = <<"a", " ", "b">>

\* The table row with a cell typed after it: pipes that gave a space and
\* pipes that gave none.
C21_Witness ==
    /\ MatchAt(conversion.raw, SourceTableRow, 0)
    /\ conversion.edits > 0
    /\ Cardinality(PipeSpaces(conversion)) >= 1
    /\ Cardinality({k \in 1..Len(conversion.raw) : conversion.raw[k] = "|"}) >= 4

\* text holds pat somewhere
Contains(text, pat) == IndexOf(text, pat, 0) # -1

\* C22. A wikilink contributes only its display segment (its target when
\* there is no pipe) to the plain text, at the source offsets of that
\* segment, also when it is nested in the text of a standard link: for
\* "[See [[Note A|here]]](url)" the plain text holds "here" mapped to the
\* source offset of the h of the display segment, and holds none of the
\* wikilink markup ("[[", the target "Note A", "|", "]]") and nothing of
\* the url.
C22_NestedWikilink ==
    conversion.raw = SourceNestedLink =>
       LET here == <<"h", "e", "r", "e">>
           p == IndexOf(conversion.plainText, here, 0)
       IN  /\ p # -1
           /\ lookupEditorOffset(conversion.map, p)
                 = Some(conversion.editorOffset + IndexOf(SourceNestedLink, here, 0))
           /\ ~Contains(conversion.plainText, <<"[", "[">>)
           /\ ~Contains(conversion.plainText, <<"N", "o", "t", "e", " ", "A">>)
           /\ ~Contains(conversion.plainText, <<"|">>)
           /\ ~Contains(conversion.plainText, <<"]", "]">>)
           /\ ~Contains(conversion.plainText, <<"u", "r", "l">>)

\* The greatest element of a non-empty set of integers
Greatest(S) == CHOOSE x \in S : \A y \in S : y <= x

\* The reference split point of the window [offset, offset + maxChars) of
\* text
ReferenceSplit(text, offset, maxChars) ==
    LET window == Substring(text, offset, offset + maxChars)
        sentences == {j \in 0..(Len(window) - 2) :
                         At(window, j) = "." /\ At(window, j + 1) = " "}
        spaces == {j \in 0..(Len(window) - 1) : At(window, j) = " "}
    IN  IF sentences # {} /\ 2 * Greatest(sentences) > maxChars
        THEN offset + Greatest(sentences) + 2
        ELSE IF spaces # {} /\ 10 * Greatest(spaces) > 3 * maxChars
        THEN offset + Greatest(spaces) + 1
        ELSE offset + maxChars

ReferenceLookup(map, plainIndex) ==
    LET below == {k \in 1..Len(map) : map[k].plain <= plainIndex}
        a == map[Greatest(below)]
    IN  IF below = {} THEN map[1].editor
        ELSE a.editor + (plainIndex - a.plain)

\* The maps looked at: the converter's map, the map without its first
\* anchor (it starts at a plain offset that is not 0) and the empty map
MapsOf(c) == {c.map, IF c.map = <<>> THEN <<>> ELSE Tail(c.map), <<>>}

\* C24. For every non-empty map with strictly increasing plain offsets and
\* every integer plainIndex, lookup returns a.source + (plainIndex -
\* a.plain) for the anchor a with the greatest plain offset <= plainIndex
\* (the last anchor beyond it) and the first anchor's source offset when
\* plainIndex precedes the first anchor; toEditorRange returns
\* {from: lookup(plainFrom), to: lookup(plainTo - 1) + 1}, and no mapping
\* exactly when the map is empty.
C24_Lookup ==
    \A map \in MapsOf(conversion) :
       \A plainIndex \in (0 - 2)..(Len(conversion.out) + 2) :
          /\ map # <<>> =>
                lookupEditorOffset(map, plainIndex)
                  = Some(ReferenceLookup(map, plainIndex))
          /\ \A plainTo \in {plainIndex, plainIndex + 1, plainIndex + 3} :
                /\ (toEditorRange(map, plainIndex, plainTo) = None) <=> (map = <<>>)
                /\ map # <<>> =>
                      toEditorRange(map, plainIndex, plainTo)
                        = Some([from |-> ReferenceLookup(map, plainIndex),
                                to |-> ReferenceLookup(map, plainTo - 1) + 1])

\* An edited source converted from a selection start, with a map of four
\* anchors or more: its tails start after plain offset 0.
C24_Witness ==
    /\ conversion.edits > 0
    /\ conversion.editorOffset > 0
    /\ Len(conversion.map) >= 4
    /\ conversion.map[2].plain >= 2

\* source - plain of an anchor
Delta(a) == a.editor - a.plain

\* The anchors of the map before plain offset p
AnchorsBefore(map, p) == {k \in 1..Len(map) : map[k].plain < p}

\* C25. The map is sparse: an anchor is appended only for the first
\* emitted character or when the (source - plain) delta of the emitted
\* character differs from the delta of the last anchor, so two adjacent
\* anchors never have the same delta, and a source copied verbatim with no
\* markup gives exactly one anchor.
C25_SparseMap ==
    LET c == conversion
        anchors == {c.map[k] : k \in 1..Len(c.map)}
    IN  /\ \A k \in 1..(Len(c.map) - 1) : Delta(c.map[k]) # Delta(c.map[k + 1])
        /\ \A a \in anchors :
              a.plain \in 0..(Len(c.out) - 1) /\ a.editor = c.origin[a.plain + 1]
        /\ \A p \in 0..(Len(c.out) - 1) :
              LET e == [plain |-> p, editor |-> c.origin[p + 1]]
                  before == AnchorsBefore(c.map, p)
              IN  (e \in anchors) <=>
                     (before = {} \/ Delta(c.map[Greatest(before)]) # Delta(e))
        /\ (c.out = c.raw /\ c.raw # <<>>) => Len(c.map) = 1

\* An edited source of several words copied verbatim (one anchor).
C25_Witness ==
    /\ conversion.edits > 0
    /\ conversion.out = conversion.raw
    /\ Len(conversion.raw) > Len(SourceWords)
    /\ Len(conversion.map) = 1

\* The buffer offsets >= from where word occurs in text
Occurrences(text, word, from) ==
    {i \in Max(0, from)..(Len(text) - Len(word)) : MatchAt(text, word, i)}

\* The least element of a non-empty set of integers
Least(S) == CHOOSE x \in S : \A y \in S : x <= y

\* The last step was highlightWord on the highlighter alone
IsFind == op.name = "highlightWord" /\ op.event # None

\* C26. A find that misses (the word occurs neither at or after the cursor
\* nor from max(0, cursor - 20) on) leaves the cursor and the text index
\* unchanged and applies no highlight; the search is retried once, never
\* in a loop: an occurrence further back than the retry is not found.
C26_FindMiss ==
    IsFind =>
       LET h == op.event[1].before
           g == readingHighlighter
           word == op.event[1].word
       IN  (word # <<>> /\ Occurrences(g.fullText, word, h.searchOffset - 20) = {}) =>
              /\ g.searchOffset = h.searchOffset
              /\ g.hl = None
              /\ h.cachedContainer = op.event[1].container =>
                    /\ g.textNodes = h.textNodes
                    /\ g.fullText = h.fullText
                    /\ g.cachedContainer = h.cachedContainer

\* A miss on the indexed container of a word that the buffer holds further
\* back than the retry, with a highlight applied before the call.
C26_Witness ==
    /\ IsFind
    /\ op.event[1].before.cachedContainer = op.event[1].container
    /\ op.event[1].before.hl # None
    /\ op.event[1].word # <<>>
    /\ Occurrences(readingHighlighter.fullText, op.event[1].word, 0) # {}
    /\ Occurrences(readingHighlighter.fullText, op.event[1].word,
                   op.event[1].before.searchOffset - 20) = {}
    /\ readingHighlighter.hl = None
    /\ readingHighlighter.searchOffset = op.event[1].before.searchOffset

\* C27. On a successful find the cursor is set to idx + word.length for
\* the match start idx, and idx is never more than 20 characters before
\* the cursor at the start of the call: the match is the first occurrence
\* at or after the cursor if there is one, otherwise the first occurrence
\* that starts in [max(0, cursor - 20), cursor).
C27_FindMatch ==
    IsFind =>
       LET h == op.event[1].before
           g == readingHighlighter
           word == op.event[1].word
           ahead == Occurrences(g.fullText, word, h.searchOffset)
           back == Occurrences(g.fullText, word, h.searchOffset - 20) \ ahead
           idx == IF ahead # {} THEN Least(ahead) ELSE Least(back)
       IN  (word # <<>> /\ ahead \cup back # {}) =>
              /\ g.searchOffset = idx + Len(word)
              /\ idx >= h.searchOffset - 20
              /\ ahead = {} => idx < h.searchOffset
              /\ g.hl # None
              /\ g.hl[1].from = idx
              /\ g.hl[1].to = idx + Len(word)

\* A find that matched in the retry: the word starts before the cursor,
\* within 20 characters of it, in a buffer that also holds it earlier.
C27_Witness ==
    /\ IsFind
    /\ readingHighlighter.hl # None
    /\ readingHighlighter.hl[1].from < op.event[1].before.searchOffset
    /\ readingHighlighter.hl[1].from > 0
    /\ readingHighlighter.searchOffset
          = readingHighlighter.hl[1].from + Len(op.event[1].word)
    /\ Cardinality(Occurrences(readingHighlighter.fullText, op.event[1].word, 0)) >= 2

\* C28. clear() on the DOM searcher removes the applied highlight and
\* leaves the search cursor, the cached text-node index, the flattened
\* buffer and the cached container unchanged, whereas prepare(container)
\* and reset() set the cursor to 0 and drop the previous index.
C28_ClearKeepsIndex ==
    op.event # None =>
       LET h == op.event[1].before
           g == readingHighlighter
       IN  /\ op.name = "clear" =>
                 g = [h EXCEPT !.hl = None]
           /\ op.name = "reset" =>
                 /\ g.searchOffset = 0
                 /\ g.textNodes = <<>>
                 /\ g.fullText = <<>>
                 /\ g.cachedContainer = None
                 /\ g.hl = None
           /\ op.name = "prepare" =>
                 /\ g.searchOffset = 0
                 /\ g.cachedContainer = op.event[1].container
                 /\ g.fullText = Joined(op.event[1].container[1].nodes)
                 /\ Len(g.textNodes)
                       = Cardinality({k \in 1..Len(op.event[1].container[1].nodes) :
                                         op.event[1].container[1].nodes[k] # <<>>})
                 /\ g.hl = None

\* clear() on a searcher that had a highlight applied and its cursor
\* inside an indexed buffer.
C28_Witness ==
    /\ op.name = "clear"
    /\ op.event # None
    /\ op.event[1].before.hl # None
    /\ readingHighlighter.hl = None
    /\ readingHighlighter.searchOffset > 0
    /\ readingHighlighter.fullText # <<>>
    /\ readingHighlighter.cachedContainer = Some(LongContainer)
\* ------------------------------------------------------------------------
\* The controller on a note that repeats a word inside a table
\* ------------------------------------------------------------------------

WidgetNext ==
    \/ Play(DocEcho, 0, "editor")
    \/ Pause
    \/ Resume
    \/ Stop
    \/ \E u \in 1..Len(utts), name \in BoundaryNames, charLength \in CharLengths :
          \E charIndex \in CharIndices :
             BackendBoundary(u, name, charIndex, charLength)
    \/ \E u \in 1..Len(utts) : BackendEnd(u)
    \/ \E f \in frames : FrameFire(f)

WidgetSpec == Init /\ [][WidgetNext]_vars

\* C29: in a session on the editor, a highlight of the widget highlighter
\* (the DOM-search fallback) exists only while the offset-range decoration
\* is not rendered in the live DOM, and the word it covers lies in text
\* nodes inside a widget element, never in ordinary editor text.
C29_FallbackInWidgets ==
    (editorView # None /\ widgetHighlighter.hl # None) =>
       /\ ~MarkRendered(World)
       /\ widgetHighlighter.hl[1].startNode \in editorView[1].widgetNodes
       /\ widgetHighlighter.hl[1].endNode \in editorView[1].widgetNodes

\* ------------------------------------------------------------------------
\* One session played to its end
\* ------------------------------------------------------------------------

\* play() on a controller that has spoken nothing yet
LivePlay(doc, target) ==
    /\ state = "idle"
    /\ utts = <<>>
    /\ Play(doc, 0, target)

\* pause() pressed while the session plays
LivePause ==
    /\ state = "playing"
    /\ Pause

\* resume() pressed while the session is paused
LiveResume ==
    /\ state = "paused"
    /\ Resume

\* The backend reports the end of utterance u, once, whether or not the
\* synthesizer has been paused in the meantime.
LiveEnd(u) ==
    /\ u <= Len(utts)
    /\ ~utts[u].ended
    /\ BackendEnd(u)

\* The backend fires a boundary event on an utterance it has not ended.
LiveBoundary(u, name, charIndex, charLength) ==
    /\ ~utts[u].ended
    /\ BackendBoundary(u, name, charIndex, charLength)

LiveNext ==
    \/ \E doc \in Docs, target \in Targets : LivePlay(doc, target)
    \/ LivePause
    \/ LiveResume
    \/ \E u \in 1..MaxUtterances : LiveEnd(u)
    \/ \E u \in 1..Len(utts), name \in BoundaryNames, charLength \in CharLengths :
          \E charIndex \in CharIndices :
             LiveBoundary(u, name, charIndex, charLength)
    \/ \E f \in frames : FrameFire(f)

\* The user resumes every pause and the backend ends every utterance it
\* was given.
LiveFairness ==
    /\ WF_vars(LiveResume)
    /\ \A u \in 1..MaxUtterances : WF_vars(LiveEnd(u))

LiveSpec == Init /\ [][LiveNext]_vars /\ LiveFairness

\* C30: a session that is playing eventually returns to idle by the end of
\* its last chunk, emitting the end notification, whatever the interleaving
\* of pause and resume with the end callbacks of the backend.
C30_SessionCompletes ==
    (state = "playing") ~>
       (state = "idle" /\ op.name = "end" /\ Count(out, "end") > 0)

\* ------------------------------------------------------------------------
\* Callbacks of superseded utterances
\* ------------------------------------------------------------------------

\* Utterance u was cancelled before the backend ended it and a later
\* utterance is being spoken in a playing session.
Superseded(u) ==
    /\ u \in 1..Len(utts)
    /\ ~utts[u].ended
    /\ utterance # None
    /\ utterance[1] > u
    /\ state = "playing"

\* C31: an end or boundary event of an utterance that stop() or a later
\* play() cancelled, delivered once the new session speaks its first chunk,
\* neither advances the chunk index of the new session nor schedules a
\* highlight in it.
C31_StaleCallbacks ==
    [][(op'.name \in {"end", "boundary"} /\ Superseded(op'.u)) =>
          /\ currentChunk' = currentChunk
          /\ frames' = frames
          /\ lastHighlightFrame' = lastHighlightFrame]_vars

\* ------------------------------------------------------------------------
\* The end notification
\* ------------------------------------------------------------------------

\* The step takes a session that was playing or paused back to idle (play()
\* on such a session stops it before it starts the next one).
LeavesSession == state # "idle" /\ (state' = "idle" \/ op'.name = "play")

\* C32: a step emits the end notification exactly once when it takes a
\* playing or paused session back to idle (by stop(), by a document change
\* or surface switch, by a backend error or by the end of the last chunk)
\* and never otherwise; the notification directly follows the idle
\* state-change event, so none is emitted while playing or paused.
C32_EndExactlyOnce ==
    [][/\ Count(out', "end") = (IF LeavesSession THEN 1 ELSE 0)
       /\ Count(out', "end") = 1 =>
             LET i == FirstOf(out', "end")
             IN  /\ i > 1
                 /\ out'[i - 1].kind = "state"
                 /\ out'[i - 1].s = "idle"]_vars

\* A paused session stopped by an edit of the document, notified once
C32_Witness ==
    /\ op.name = "docChange"
    /\ op.pre = "paused"
    /\ state = "idle"
    /\ Count(out, "end") = 1

\* ------------------------------------------------------------------------
\* The chunk index of a running session
\* ------------------------------------------------------------------------

\* C33: while the controller is playing or paused a prepared session with
\* at least one chunk exists and 0 <= currentChunk < chunks.length; every
\* state-change event emitted with state playing or paused carries
\* currentChunkIndex < totalChunks.
C33_ChunkInRange ==
    /\ state \in {"playing", "paused"} =>
          /\ prepared # None
          /\ Len(prepared[1].chunks) >= 1
          /\ currentChunk \in 0..(Len(prepared[1].chunks) - 1)
    /\ \A i \in 1..Len(out) :
          (out[i].kind = "state" /\ out[i].s \in {"playing", "paused"}) =>
             (0 <= out[i].n /\ out[i].n < out[i].m)

\* The session advanced to its last chunk and announced it
C33_Witness ==
    /\ op.name = "end"
    /\ state = "playing"
    /\ currentChunk = 1
    /\ Len(prepared[1].chunks) = 2
    /\ \E i \in 1..Len(out) :
          out[i].kind = "state" /\ out[i].s = "playing" /\ out[i].n = 1 /\ out[i].m = 2

\* ------------------------------------------------------------------------
\* The prepared session of an idle controller
\* ------------------------------------------------------------------------

\* C34: whenever the controller is idle getTotalChunks() returns 0 (the
\* prepared session has been discarded), also after the natural end of the
\* last chunk, and every state-change event emitted with state idle
\* carries totalChunks = 0.
C34_IdleDiscarded ==
    /\ state = "idle" => getTotalChunks(World) = 0
    /\ \A i \in 1..Len(out) :
          (out[i].kind = "state" /\ out[i].s = "idle") => out[i].m = 0

\* ------------------------------------------------------------------------
\* Highlights and the playing state
\* ------------------------------------------------------------------------

\* C35: a highlight is applied and a highlight event is emitted only while
\* the state is playing; a highlight request that is pending when pause()
\* is called is not applied while the controller is paused.
C35_HighlightOnlyWhilePlaying ==
    [][state # "playing" =>
          /\ Count(out', "highlight") = 0
          /\ (deco' # None => deco' = deco)
          /\ (readingHighlighter'.hl # None =>
                 readingHighlighter'.hl = readingHighlighter.hl)
          /\ (widgetHighlighter'.hl # None =>
                 widgetHighlighter'.hl = widgetHighlighter.hl)]_vars

\* ------------------------------------------------------------------------
\* Progress of the chunker
\* ------------------------------------------------------------------------

\* The chunks and offsets advance: the first offset is 0, every chunk is
\* non-empty and starts where the one before it ends.
Advances(sc, text) ==
    /\ Len(sc.chunks) = Len(sc.chunkOffsets)
    /\ Len(sc.chunks) \in 1..Len(text)
    /\ sc.chunkOffsets[1] = 0
    /\ \A k \in 1..Len(sc.chunks) : Len(sc.chunks[k]) >= 1
    /\ \A k \in 1..(Len(sc.chunks) - 1) :
          /\ sc.chunkOffsets[k] < sc.chunkOffsets[k + 1]
          /\ sc.chunkOffsets[k + 1] = sc.chunkOffsets[k] + Len(sc.chunks[k])

\* C36: for every plain text prepare() hands to the chunker (one that is
\* not blank) and every chunk size >= 1 the chunker returns, after at most
\* one iteration per character, chunks that are all non-empty and chunk
\* offsets that are strictly increasing.
C36_ChunkerAdvances ==
    /\ conversion.chunkSize >= 1
    /\ conversion.plainText # <<>> =>
          /\ Advances(conversion.split, conversion.plainText)
          /\ conversion.prepared.chunks = conversion.split.chunks
          /\ conversion.prepared.chunkOffsets = conversion.split.chunkOffsets

\* A text typed into, cut in one-character chunks and in chunks made by
\* the space rule
C36_Witness ==
    /\ conversion.edits > 0
    /\ Len(conversion.split.chunks) >= 3
    /\ \/ conversion.chunkSize = 1
       \/ \E k \in 1..(Len(conversion.split.chunks) - 1) :
             /\ Len(conversion.split.chunks[k]) < conversion.chunkSize
             /\ conversion.split.chunks[k][Len(conversion.split.chunks[k])] = " "

\* ------------------------------------------------------------------------
\* Order of the source offsets
\* ------------------------------------------------------------------------

\* C37: in every non-empty map the converter produces the source offsets
\* of the anchors are strictly increasing, lookup is strictly increasing in
\* plainIndex from 0 on, and toEditorRange returns a range with from < to
\* for every 0 <= plainFrom < plainTo.
C37_SourceOrder ==
    LET map == conversion.map
        last == Len(conversion.out) + 2
    IN  map # <<>> =>
           /\ \A k \in 1..(Len(map) - 1) : map[k].editor < map[k + 1].editor
           /\ \A p \in 0..last :
                 lookupEditorOffset(map, p)[1] < lookupEditorOffset(map, p + 1)[1]
           /\ \A plainFrom \in 0..last :
                 \A plainTo \in (plainFrom + 1)..(plainFrom + 3) :
                    LET r == toEditorRange(map, plainFrom, plainTo)
                    IN  r # None /\ r[1].from < r[1].to

\* An edited source whose map has three anchors or more, with a plain range
\* of two characters that spans more than two source characters
C37_Witness ==
    /\ conversion.edits > 0
    /\ Len(conversion.map) >= 3
    /\ \E plainFrom \in 0..Len(conversion.out) :
          LET r == toEditorRange(conversion.map, plainFrom, plainFrom + 2)
          IN  r # None /\ r[1].to - r[1].from > 2

\* ------------------------------------------------------------------------
\* The highlight field alone
\* ------------------------------------------------------------------------

\* Lengths of the documents the field is created on
FieldDocLengths == {0, 4}

\* Offsets carried by the highlight effects: before the document, inside
\* it and past its end
EffectOffsets == {0 - 1, 0, 2, 4, 6}

\* Values of a setTTSHighlight effect: null or a range
EffectValues ==
    {None} \cup {Some([from |-> f, to |-> t]) : f \in EffectOffsets, t \in EffectOffsets}

\* The highlight effects of one transaction, in order
EffectLists ==
    {<<>>} \cup {<<v>> : v \in EffectValues}
           \cup {<<v1, v2>> : v1 \in EffectValues, v2 \in {None, Some([from |-> 0, to |-> 2])}}

\* A new editor state on a document of the given length: create()
FieldCreate(len) ==
    Commit([World EXCEPT !.deco = None, !.docLen = len],
           [Op("create", len, "") EXCEPT !.event =
               Some([before |-> None, effects |-> <<>>, docLength |-> len])])

\* A transaction without document change carrying the effects
FieldDispatch(effects) ==
    Commit([World EXCEPT !.deco = fieldUpdate(@, effects, docLen)],
           [Op("dispatch", 0, "") EXCEPT !.event =
               Some([before |-> deco, effects |-> effects, docLength |-> docLen])])

FieldNext ==
    \/ \E len \in FieldDocLengths : FieldCreate(len)
    \/ \E effects \in EffectLists : FieldDispatch(effects)

FieldSpec == Init /\ [][FieldNext]_vars

\* The document positions a decoration state covers
Covered(d) == IF d = None THEN {} ELSE d[1].from..(d[1].to - 1)

\* C38: the decoration state is empty or one range inside the document;
\* after a transaction whose first highlight effect carries {from, to} it
\* covers exactly the positions of from..to-1 that lie in the document
\* (it is empty when there are none), after a first effect of null it is
\* empty, further highlight effects of the transaction are ignored, and a
\* transaction without highlight effect leaves it as it was.
C38_FieldHoldsFirstEffect ==
    /\ deco # None =>
          (0 <= deco[1].from /\ deco[1].from < deco[1].to /\ deco[1].to <= docLen)
    /\ (op.name = "dispatch" /\ op.event # None) =>
          LET e == op.event[1]
          IN  IF e.effects = <<>> THEN deco = e.before
              ELSE IF e.effects[1] = None THEN deco = None
              ELSE Covered(deco) =
                     {k \in 0..(e.docLength - 1) :
                         e.effects[1][1].from <= k /\ k < e.effects[1][1].to}

\* A transaction with two highlight effects: the first a range reaching
\* past the end of the document, the second null
C38_Witness ==
    /\ op.name = "dispatch"
    /\ op.event # None
    /\ Len(op.event[1].effects) = 2
    /\ op.event[1].effects[1] = Some([from |-> 2, to |-> 6])
    /\ op.event[1].effects[2] = None
    /\ op.event[1].docLength = 4
    /\ deco = Some([from |-> 2, to |-> 4])

====
